---- MODULE Spec2Model ----
(***************************************************************************)
(* The downstream controller of the edge controller                       *)
(* (cloud/pkg/edgecontroller/controller/downstream.go): eight sync loops, *)
(* one goroutine each, that take informer events from a per-kind channel, *)
(* consult the shared LocationCache and hand routed messages to the       *)
(* message layer.                                                         *)
(*                                                                         *)
(* Granularity.  The loops run concurrently and share only the            *)
(* LocationCache and the message layer.  Every call of a LocationCache    *)
(* method is atomic (the cache is thread-safe); a loop's step starts at   *)
(* the channel receive, or at a LocationCache call that follows another   *)
(* one in the same handler, and runs up to the next such call.  Local     *)
(* computation and SendMessage, which touch no cache state, belong to the *)
(* step of the statement they follow.                                     *)
(***************************************************************************)
EXTENDS Integers, Sequences, FiniteSets, TLC

(***************************************************************************)
(* Bounds of the model.                                                    *)
(***************************************************************************)
\* informer events delivered after construction
MaxEvents == 2
\* capacity of each per-kind event channel
MaxQueue == 2
\* errors messageLayer.Send may return
MaxSendFaults == 1
\* channels that hold an event when the context is cancelled
MaxPending == 2

(***************************************************************************)
(* The universe of objects the informers may deliver.                      *)
(***************************************************************************)
NodeNames == {"n1", "n2"}
PodNames == {"p1", "p2"}
ConfigMapNames == {"c1"}
SecretNames == {"s1"}
ClusterNames == {"ec1", "ec2"}
MissionNames == {"m1", "m2"}
Namespace == "app"

Added == "ADDED"
Modified == "MODIFIED"
Deleted == "DELETED"
EventTypes == {Added, Modified, Deleted}

InsertOperation == "insert"
UpdateOperation == "update"
DeleteOperation == "delete"
NoOperation == "none"

NodeReady == "Ready"
ConditionTrue == "True"

Cond(t, s) == [type |-> t, status |-> s]

\* node.Status.Conditions: no condition at all, Ready behind another
\* condition, Ready alone
ConditionLists ==
    { << >>,
      << Cond("MemoryPressure", "False"), Cond(NodeReady, ConditionTrue) >>,
      << Cond(NodeReady, "False") >> }

\* Every object carries its Go type; a loop's type assertion reads it.
NodeObjects == [kind : {"Node"}, name : NodeNames, conditions : ConditionLists]

\* pod.Spec.NodeName may be empty (a pod not yet scheduled)
PodObjects ==
    [kind : {"Pod"}, name : PodNames, namespace : {Namespace},
     nodeName : NodeNames \cup {""},
     configMaps : SUBSET ConfigMapNames, secrets : SUBSET SecretNames]

ConfigMapObjects ==
    [kind : {"ConfigMap"}, name : ConfigMapNames, namespace : {Namespace}]
SecretObjects ==
    [kind : {"Secret"}, name : SecretNames, namespace : {Namespace}]
MissionObjects == [kind : {"Mission"}, name : MissionNames]
\* edgeCluster.State.ReceivedMissions is a list of names: empty, one name,
\* one name twice, two names
ReceivedLists == { << >>, << "m1" >>, << "m1", "m1" >>, << "m2", "m1" >> }

EdgeClusterObjects ==
    [kind : {"EdgeCluster"}, name : ClusterNames,
     receivedMissions : ReceivedLists]

RuleNames == {"r1", "r2"}
RuleEndpointNames == {"re1", "re2"}

RuleObjects == [kind : {"Rule"}, name : RuleNames, target : {"re1", "re2"}]
RuleEndpointObjects ==
    [kind : {"RuleEndpoint"}, name : RuleEndpointNames,
     ruleEndpointType : {"rest", "eventbus"}]

Event(t, o) == [type |-> t, object |-> o]

NoEvent == [type |-> "none"]

(***************************************************************************)
(* Finite maps.                                                            *)
(***************************************************************************)
EmptyMap == [x \in {} |-> {}]

Put(m, k, v) == [x \in DOMAIN m \cup {k} |-> IF x = k THEN v ELSE m[x]]

Remove(m, k) == [x \in DOMAIN m \ {k} |-> m[x]]

Key(ns, name) == << ns, name >>

(***************************************************************************)
(* messagelayer.BuildResource and BuildResourceForRouter: the resource     *)
(* identifier of a message, or an error when a required field is missing.  *)
(* The identifier is kept as the tuple of its segments.                    *)
(***************************************************************************)
BuildResource(nodeID, namespace, resourceType, resourceID) ==
    IF nodeID = "" \/ namespace = "" \/ resourceType = ""
    THEN [err |-> TRUE, resource |-> << >>]
    ELSE [err |-> FALSE,
          resource |-> << nodeID, namespace, resourceType, resourceID >>]

BuildResourceForRouter(resourceType, resourceID) ==
    IF resourceType = "" \/ resourceID = ""
    THEN [err |-> TRUE, resource |-> << >>]
    ELSE [err |-> FALSE, resource |-> << resourceType, resourceID >>]

\* model.NewMessage("").BuildRouter(source, group, resource, operation).FillBody(content)
Message(resource, operation, content) ==
    [source |-> "edgecontroller", group |-> "resource", resource |-> resource,
     operation |-> operation, content |-> content]

(***************************************************************************)
(* manager.LocationCache.  Each operator is one method: it takes the       *)
(* indices it reads and yields the value returned or the indices written.  *)
(***************************************************************************)
IsEdgeNode(en, name) == name \in DOMAIN en

UpdateEdgeNode(en, name, status) == Put(en, name, status)

GetNodeStatus(en, name) ==
    IF name \in DOMAIN en
    THEN [status |-> en[name], found |-> TRUE]
    ELSE [status |-> "", found |-> FALSE]

\* an index without its empty entries
Prune(idx) == [k \in {k \in DOMAIN idx : idx[k] # {}} |-> idx[k]]

\* the index with `node` taken out of the entries of `keys`
DropNode(idx, keys, node) ==
    Prune([k \in DOMAIN idx |-> IF k \in keys THEN idx[k] \ {node} ELSE idx[k]])

\* the index with `node` put into the entries of `keys`
AddNode(idx, keys, node) ==
    [k \in DOMAIN idx \cup keys |->
        (IF k \in DOMAIN idx THEN idx[k] ELSE {})
            \cup (IF k \in keys THEN {node} ELSE {})]

\* DeleteNode: the node leaves EdgeNodes and every value set
DeleteNodeEdgeNodes(en, name) == Remove(en, name)

DeleteNodeIndex(idx, name) == DropNode(idx, DOMAIN idx, name)

\* the snapshot ConfigMapNodes(ns, name) / SecretNodes(ns, name) returns
IndexNodes(idx, ns, name) ==
    IF Key(ns, name) \in DOMAIN idx THEN idx[Key(ns, name)] ELSE {}

\* DeleteConfigMap / DeleteSecret
DeleteIndexEntry(idx, ns, name) == Remove(idx, Key(ns, name))

PodKeys(pod, names) == {Key(pod.namespace, c) : c \in names}

\* the references of the cached pod under `key` that `pod` no longer has on
\* that node and no other cached pod on that node has
StaleRefs(pix, key, pod, field) ==
    IF key \notin DOMAIN pix THEN {}
    ELSE {c \in pix[key][field] :
            /\ c \notin pod[field] \/ pix[key].nodeName # pod.nodeName
            /\ ~ \E k2 \in DOMAIN pix \ {key} :
                    /\ pix[k2].nodeName = pix[key].nodeName
                    /\ pix[k2].namespace = pix[key].namespace
                    /\ c \in pix[k2][field]}

\* AddOrUpdatePod: the three indices after the pod's references are recorded
AddOrUpdatePod(cmn, sn, pix, pod) ==
    LET key == Key(pod.namespace, pod.name)
        prior == IF key \in DOMAIN pix THEN pix[key].nodeName ELSE ""
        dropC == PodKeys(pod, StaleRefs(pix, key, pod, "configMaps"))
        dropS == PodKeys(pod, StaleRefs(pix, key, pod, "secrets"))
    IN  [configMapNode |->
            AddNode(DropNode(cmn, dropC, prior),
                    PodKeys(pod, pod.configMaps), pod.nodeName),
         secretNode |->
            AddNode(DropNode(sn, dropS, prior),
                    PodKeys(pod, pod.secrets), pod.nodeName),
         podIndex |-> Put(pix, key, pod)]

UpdateEdgeCluster(ec, name, present) == Put(ec, name, present)

DeleteEdgeCluster(ec, name) == Remove(ec, name)

VARIABLES
    \* the upstream store the informers watch
    upNodes, upPods, upConfigMaps, upSecrets, upMissions, upClusters,
    \* the managers' event channels
    podQ, configMapQ, secretQ, nodeQ, missionQ, edgeClusterQ,
    \* the event a loop holds between two steps of its handler
    podCur, configMapCur, secretCur, missionCur,
    \* the LocationCache
    edgeNodes, configMapNode, secretNode, podIndex, edgeClusters,
    \* the messages handed to MessageLayer.Send, in order
    sent,
    \* the number of events the informers have delivered
    nEvents,
    \* the rules and rule endpoints of the store, and their channels
    upRules, upRuleEndpoints, ruleQ, ruleEndpointQ,
    \* the controller: "unbuilt", "built", "failed" or "started"; whether
    \* beehiveContext.Done() is closed; the loops whose goroutine runs
    controller, done, running,
    \* the call of the construction that returns an error, or "none"
    startupFault,
    \* the positions in `sent` whose Send returned an error, and the number
    \* of errors the message layer may still return
    sendFailed, sendFaults

upstream == << upNodes, upPods, upConfigMaps, upSecrets, upMissions, upClusters >>
queues == << podQ, configMapQ, secretQ, nodeQ, missionQ, edgeClusterQ >>
locals == << podCur, configMapCur, secretCur, missionCur >>
cache == << edgeNodes, configMapNode, secretNode, podIndex, edgeClusters >>
router == << upRules, upRuleEndpoints, ruleQ, ruleEndpointQ >>
lifecycle == << controller, done, running, startupFault >>
layer == << sendFailed, sendFaults >>
vars == << upstream, queues, locals, cache, sent, nEvents, router, lifecycle, layer >>

(***************************************************************************)
(* Start launches one goroutine per loop; a loop takes events while its    *)
(* goroutine runs.                                                         *)
(***************************************************************************)
Loops ==
    {"pod", "configmap", "secret", "node", "rule", "ruleendpoint", "mission",
     "edgecluster"}

\* a for loop that goes on after the Done case was taken
Runs_AfterReturn(loop) == TRUE

Runs(loop) == loop \in running

(***************************************************************************)
(* dc.SendMessage: the message goes to messageLayer.Send; an error of Send *)
(* is logged and the caller goes on.                                       *)
(***************************************************************************)
\* a handler that gives the event up at the first error of Send
SendMessage_StopsAtError(msgs, failedAt) ==
    IF failedAt = {} THEN msgs
    ELSE SubSeq(msgs, 1, CHOOSE i \in failedAt : \A j \in failedAt : i <= j)

\* what the message layer is handed when the handler calls SendMessage for
\* msgs in turn and Send fails at the positions failedAt
SendMessage(msgs, failedAt) == msgs

\* the handler's calls of SendMessage, with the outcomes Send may have
Sends(msgs) ==
    \E failedAt \in SUBSET (1..Len(msgs)) :
        /\ Cardinality(failedAt) <= sendFaults
        /\ sent' = sent \o SendMessage(msgs, failedAt)
        /\ sendFailed' = sendFailed \cup {Len(sent) + i : i \in failedAt}
        /\ sendFaults' = sendFaults - Cardinality(failedAt)

(***************************************************************************)
(* initLocating: the cache NewDownstreamController primes from the lists   *)
(* of labelled nodes, of pods and of edge clusters.                        *)
(***************************************************************************)
\* the inner loop of initLocating: the status of the first Ready condition;
\* `status` is declared outside the loop over the nodes and keeps its value
\* when a node has no Ready condition
RECURSIVE FirstReadyStatus(_, _)
FirstReadyStatus(conditions, status) ==
    IF conditions = << >> THEN status
    ELSE IF Head(conditions).type = NodeReady THEN Head(conditions).status
    ELSE FirstReadyStatus(Tail(conditions), status)

RECURSIVE InitLocatingNodes(_, _, _)
InitLocatingNodes(en, status, nodes) ==
    IF nodes = << >> THEN en
    ELSE LET st == FirstReadyStatus(Head(nodes).conditions, status)
         IN  InitLocatingNodes(UpdateEdgeNode(en, Head(nodes).name, st), st,
                               Tail(nodes))

RECURSIVE InitLocatingPods(_, _, _)
InitLocatingPods(en, lc, pods) ==
    IF pods = << >> THEN lc
    ELSE LET p == Head(pods)
         IN  InitLocatingPods(en,
                IF IsEdgeNode(en, p.nodeName)
                THEN AddOrUpdatePod(lc.configMapNode, lc.secretNode, lc.podIndex, p)
                ELSE lc,
                Tail(pods))

\* a loop that records whether the cluster is new to the cache
RECURSIVE InitLocatingClusters_MarksNew(_, _)
InitLocatingClusters_MarksNew(ec, clusters) ==
    IF clusters = << >> THEN ec
    ELSE InitLocatingClusters_MarksNew(
            UpdateEdgeCluster(ec, Head(clusters).name,
                              Head(clusters).name \notin DOMAIN ec),
            Tail(clusters))

RECURSIVE InitLocatingClusters(_, _)
InitLocatingClusters(ec, clusters) ==
    IF clusters = << >> THEN ec
    ELSE InitLocatingClusters(UpdateEdgeCluster(ec, Head(clusters).name, TRUE),
                              Tail(clusters))

\* the calls of the construction that may return an error: the construction
\* of a manager and the three List calls of initLocating
StartupFaults == {"manager", "nodes", "pods", "clusters"}

EmptyCache ==
    [edgeNodes |-> EmptyMap, configMapNode |-> EmptyMap, secretNode |-> EmptyMap,
     podIndex |-> EmptyMap, edgeClusters |-> EmptyMap]

\* the cache lc after initLocating has run on it up to the List call that
\* returns an error (fault), or to its end
InitLocatingFrom(lc, nodes, pods, clusters, fault) ==
    LET en == IF fault = "nodes" THEN lc.edgeNodes
              ELSE InitLocatingNodes(lc.edgeNodes, "", nodes)
        ix == IF fault \in {"nodes", "pods"}
              THEN [configMapNode |-> lc.configMapNode,
                    secretNode |-> lc.secretNode, podIndex |-> lc.podIndex]
              ELSE InitLocatingPods(en,
                     [configMapNode |-> lc.configMapNode,
                      secretNode |-> lc.secretNode, podIndex |-> lc.podIndex], pods)
    IN  [edgeNodes |-> en, configMapNode |-> ix.configMapNode,
         secretNode |-> ix.secretNode, podIndex |-> ix.podIndex,
         edgeClusters |-> IF fault = "none"
                          THEN InitLocatingClusters(lc.edgeClusters, clusters)
                          ELSE lc.edgeClusters]

\* the cache after initLocating, from an empty LocationCache
InitLocating(nodes, pods, clusters) ==
    InitLocatingFrom(EmptyCache, nodes, pods, clusters, "none")

\* a List call returns the objects by name
NameOrder == << "c1", "ec1", "ec2", "m1", "m2", "n1", "n2", "p1", "p2", "s1" >>

NameIn(objs, n) == \E o \in objs : o.name = n

ListOf(objs) ==
    LET names == SelectSeq(NameOrder, LAMBDA n : NameIn(objs, n))
    IN  [i \in 1..Len(names) |-> CHOOSE o \in objs : o.name = names[i]]

ByName(objs, n) == CHOOSE o \in objs : o.name = n

Without(objs, n) == {o \in objs : o.name # n}

\* the sets of objects of `objs` that give each name of some names one object
NamedSets(names, objs) ==
    UNION {{{f[n] : n \in D} : f \in {g \in [D -> objs] : \A n \in D : g[n].name = n}} :
            D \in SUBSET names}

\* The upstream store at construction.  The names of a kind are
\* interchangeable, so the second node comes with a ready first one and the
\* second pod with the first; the listed pods mount every configmap and
\* secret, the first on n1 or unscheduled, the second on n2.
InitialNodeSets ==
    {S \in NamedSets(NodeNames, NodeObjects) :
        NameIn(S, "n2") =>
             /\ NameIn(S, "n1")
             /\ FirstReadyStatus(ByName(S, "n1").conditions, "") = ConditionTrue}

InitialPodSets ==
    {S \in NamedSets(PodNames, PodObjects) :
        /\ NameIn(S, "p2") => NameIn(S, "p1")
        /\ \A o \in S :
            /\ o.configMaps = ConfigMapNames /\ o.secrets = SecretNames
            /\ o.name = "p1" => o.nodeName \in {"n1", ""}
            /\ o.name = "p2" => o.nodeName = "n2"}

InitialClusterSets == NamedSets(ClusterNames, EdgeClusterObjects)

\* the cache as initLocating primes it from the store
Primed ==
    LET lc == InitLocating(ListOf(upNodes), ListOf(upPods), ListOf(upClusters))
    IN  /\ edgeNodes = lc.edgeNodes
        /\ configMapNode = lc.configMapNode
        /\ secretNode = lc.secretNode
        /\ podIndex = lc.podIndex
        /\ edgeClusters = lc.edgeClusters

\* NewDownstreamController: empty channels, idle loops, the primed cache
Constructed ==
    /\ Primed
    /\ podQ = << >> /\ configMapQ = << >> /\ secretQ = << >>
    /\ nodeQ = << >> /\ missionQ = << >> /\ edgeClusterQ = << >>
    /\ ruleQ = << >> /\ ruleEndpointQ = << >>
    /\ podCur = NoEvent /\ configMapCur = NoEvent
    /\ secretCur = NoEvent /\ missionCur = NoEvent
    /\ sent = << >>
    /\ nEvents = 0

\* Start has launched the eight loops and the context is not cancelled
Started ==
    /\ startupFault = "none"
    /\ controller = "started"
    /\ done = FALSE
    /\ running = Loops

\* a message layer whose Send returns no error
Reliable ==
    /\ sendFailed = {}
    /\ sendFaults = 0

\* a store of nodes, pods, configmaps and secrets; the configmaps and secrets
\* the pods mount all exist, or none does yet
Init ==
    /\ upNodes \in InitialNodeSets
    /\ upPods \in InitialPodSets
    /\ \E created \in BOOLEAN :
        /\ upConfigMaps = IF created THEN ConfigMapObjects ELSE {}
        /\ upSecrets = IF created THEN SecretObjects ELSE {}
    /\ upMissions = {}
    /\ upClusters = {}
    /\ upRules = {}
    /\ upRuleEndpoints = {}
    /\ Constructed
    /\ Started
    /\ Reliable

\* a store of missions and edge clusters
InitMissions ==
    /\ upNodes = {}
    /\ upPods = {}
    /\ upConfigMaps = {}
    /\ upSecrets = {}
    /\ upMissions \in SUBSET MissionObjects
    /\ upClusters \in InitialClusterSets
    /\ upRules = {}
    /\ upRuleEndpoints = {}
    /\ Constructed
    /\ Started
    /\ Reliable

(***************************************************************************)
(* The informers: an upstream change puts one event on the channel of its  *)
(* kind (dc.podManager.Events() and its peers).                            *)
(***************************************************************************)
CanDeliver(q) ==
    controller # "unbuilt" /\ nEvents < MaxEvents /\ Len(q) < MaxQueue

\* the event reports a change the store can make: a create of a new name, an
\* update of an existing object, the delete of an existing object
Reports(objs, t, o) ==
    \/ t = Added /\ ~ NameIn(objs, o.name)
    \/ t = Modified /\ NameIn(objs, o.name)
    \/ t = Deleted /\ o \in objs

Apply(objs, t, o) ==
    IF t = Deleted THEN Without(objs, o.name) ELSE Without(objs, o.name) \cup {o}

\* a pod keeps its volumes, and its node once it is bound to one
PodUpdate(old, new) ==
    /\ new.configMaps = old.configMaps
    /\ new.secrets = old.secrets
    /\ old.nodeName = "" \/ new.nodeName = old.nodeName

InformPod ==
    /\ CanDeliver(podQ)
    /\ \E t \in EventTypes, o \in PodObjects :
        /\ Reports(upPods, t, o)
        /\ t = Modified => PodUpdate(ByName(upPods, o.name), o)
        /\ upPods' = Apply(upPods, t, o)
        /\ podQ' = Append(podQ, Event(t, o))
    /\ nEvents' = nEvents + 1
    /\ UNCHANGED << upNodes, upConfigMaps, upSecrets, upMissions, upClusters,
                    configMapQ, secretQ, nodeQ, missionQ, edgeClusterQ,
                    locals, cache, sent >>
    /\ UNCHANGED << router, lifecycle, layer >>

InformConfigMap ==
    /\ CanDeliver(configMapQ)
    /\ \E t \in EventTypes, o \in ConfigMapObjects :
        /\ Reports(upConfigMaps, t, o)
        /\ upConfigMaps' = Apply(upConfigMaps, t, o)
        /\ configMapQ' = Append(configMapQ, Event(t, o))
    /\ nEvents' = nEvents + 1
    /\ UNCHANGED << upNodes, upPods, upSecrets, upMissions, upClusters,
                    podQ, secretQ, nodeQ, missionQ, edgeClusterQ,
                    locals, cache, sent >>
    /\ UNCHANGED << router, lifecycle, layer >>

InformSecret ==
    /\ CanDeliver(secretQ)
    /\ \E t \in EventTypes, o \in SecretObjects :
        /\ Reports(upSecrets, t, o)
        /\ upSecrets' = Apply(upSecrets, t, o)
        /\ secretQ' = Append(secretQ, Event(t, o))
    /\ nEvents' = nEvents + 1
    /\ UNCHANGED << upNodes, upPods, upConfigMaps, upMissions, upClusters,
                    podQ, configMapQ, nodeQ, missionQ, edgeClusterQ,
                    locals, cache, sent >>
    /\ UNCHANGED << router, lifecycle, layer >>

InformNode ==
    /\ CanDeliver(nodeQ)
    /\ \E t \in EventTypes, o \in NodeObjects :
        /\ Reports(upNodes, t, o)
        /\ upNodes' = Apply(upNodes, t, o)
        /\ nodeQ' = Append(nodeQ, Event(t, o))
    /\ nEvents' = nEvents + 1
    /\ UNCHANGED << upPods, upConfigMaps, upSecrets, upMissions, upClusters,
                    podQ, configMapQ, secretQ, missionQ, edgeClusterQ,
                    locals, cache, sent >>
    /\ UNCHANGED << router, lifecycle, layer >>

InformMission ==
    /\ CanDeliver(missionQ)
    /\ \E t \in EventTypes, o \in MissionObjects :
        /\ Reports(upMissions, t, o)
        /\ upMissions' = Apply(upMissions, t, o)
        /\ missionQ' = Append(missionQ, Event(t, o))
    /\ nEvents' = nEvents + 1
    /\ UNCHANGED << upNodes, upPods, upConfigMaps, upSecrets, upClusters,
                    podQ, configMapQ, secretQ, nodeQ, edgeClusterQ,
                    locals, cache, sent >>
    /\ UNCHANGED << router, lifecycle, layer >>

InformEdgeCluster ==
    /\ CanDeliver(edgeClusterQ)
    /\ \E t \in EventTypes, o \in EdgeClusterObjects :
        /\ Reports(upClusters, t, o)
        /\ upClusters' = Apply(upClusters, t, o)
        /\ edgeClusterQ' = Append(edgeClusterQ, Event(t, o))
    /\ nEvents' = nEvents + 1
    /\ UNCHANGED << upNodes, upPods, upConfigMaps, upSecrets, upMissions,
                    podQ, configMapQ, secretQ, nodeQ, missionQ,
                    locals, cache, sent >>
    /\ UNCHANGED << router, lifecycle, layer >>

InformRule ==
    /\ CanDeliver(ruleQ)
    /\ \E t \in EventTypes, o \in RuleObjects :
        /\ Reports(upRules, t, o)
        /\ upRules' = Apply(upRules, t, o)
        /\ ruleQ' = Append(ruleQ, Event(t, o))
    /\ nEvents' = nEvents + 1
    /\ UNCHANGED << upstream, queues, locals, cache, sent, upRuleEndpoints,
                    ruleEndpointQ, lifecycle, layer >>

InformRuleEndpoint ==
    /\ CanDeliver(ruleEndpointQ)
    /\ \E t \in EventTypes, o \in RuleEndpointObjects :
        /\ Reports(upRuleEndpoints, t, o)
        /\ upRuleEndpoints' = Apply(upRuleEndpoints, t, o)
        /\ ruleEndpointQ' = Append(ruleEndpointQ, Event(t, o))
    /\ nEvents' = nEvents + 1
    /\ UNCHANGED << upstream, queues, locals, cache, sent, upRules, ruleQ,
                    lifecycle, layer >>

(***************************************************************************)
(* Events whose object a handler cannot use.  An informer that missed the  *)
(* delete of an object reports it with a cache.DeletedFinalStateUnknown in *)
(* the place of the object; an object may lack the name or namespace that  *)
(* the resource identifier of its message is built from.                   *)
(***************************************************************************)
Tombstone(o) == [kind |-> "DeletedFinalStateUnknown", key |-> o.name, obj |-> o]

\* the delete of an object of the store, reported with a tombstone
InformTombstone ==
    /\ nEvents < MaxEvents
    /\ \/ \E o \in upPods :
            /\ Len(podQ) < MaxQueue
            /\ upPods' = upPods \ {o}
            /\ podQ' = Append(podQ, Event(Deleted, Tombstone(o)))
            /\ UNCHANGED << upNodes, upConfigMaps, upSecrets, upMissions, upClusters,
                            configMapQ, secretQ, nodeQ, missionQ, edgeClusterQ,
                            router >>
       \/ \E o \in upConfigMaps :
            /\ Len(configMapQ) < MaxQueue
            /\ upConfigMaps' = upConfigMaps \ {o}
            /\ configMapQ' = Append(configMapQ, Event(Deleted, Tombstone(o)))
            /\ UNCHANGED << upNodes, upPods, upSecrets, upMissions, upClusters,
                            podQ, secretQ, nodeQ, missionQ, edgeClusterQ, router >>
       \/ \E o \in upSecrets :
            /\ Len(secretQ) < MaxQueue
            /\ upSecrets' = upSecrets \ {o}
            /\ secretQ' = Append(secretQ, Event(Deleted, Tombstone(o)))
            /\ UNCHANGED << upNodes, upPods, upConfigMaps, upMissions, upClusters,
                            podQ, configMapQ, nodeQ, missionQ, edgeClusterQ, router >>
       \/ \E o \in upNodes :
            /\ Len(nodeQ) < MaxQueue
            /\ upNodes' = upNodes \ {o}
            /\ nodeQ' = Append(nodeQ, Event(Deleted, Tombstone(o)))
            /\ UNCHANGED << upPods, upConfigMaps, upSecrets, upMissions, upClusters,
                            podQ, configMapQ, secretQ, missionQ, edgeClusterQ, router >>
       \/ \E o \in upMissions :
            /\ Len(missionQ) < MaxQueue
            /\ upMissions' = upMissions \ {o}
            /\ missionQ' = Append(missionQ, Event(Deleted, Tombstone(o)))
            /\ UNCHANGED << upNodes, upPods, upConfigMaps, upSecrets, upClusters,
                            podQ, configMapQ, secretQ, nodeQ, edgeClusterQ, router >>
       \/ \E o \in upClusters :
            /\ Len(edgeClusterQ) < MaxQueue
            /\ upClusters' = upClusters \ {o}
            /\ edgeClusterQ' = Append(edgeClusterQ, Event(Deleted, Tombstone(o)))
            /\ UNCHANGED << upNodes, upPods, upConfigMaps, upSecrets, upMissions,
                            podQ, configMapQ, secretQ, nodeQ, missionQ, router >>
       \/ \E o \in upRules :
            /\ Len(ruleQ) < MaxQueue
            /\ upRules' = upRules \ {o}
            /\ ruleQ' = Append(ruleQ, Event(Deleted, Tombstone(o)))
            /\ UNCHANGED << upstream, queues, upRuleEndpoints, ruleEndpointQ >>
       \/ \E o \in upRuleEndpoints :
            /\ Len(ruleEndpointQ) < MaxQueue
            /\ upRuleEndpoints' = upRuleEndpoints \ {o}
            /\ ruleEndpointQ' = Append(ruleEndpointQ, Event(Deleted, Tombstone(o)))
            /\ UNCHANGED << upstream, queues, upRules, ruleQ >>
    /\ nEvents' = nEvents + 1
    /\ UNCHANGED << locals, cache, sent, lifecycle, layer >>

\* objects without a name, and a pod without a namespace
UnnamedPod ==
    [kind |-> "Pod", name |-> "p1", namespace |-> "", nodeName |-> "n1",
     configMaps |-> {}, secrets |-> {}]
UnnamedNode == [kind |-> "Node", name |-> "", conditions |-> << >>]
UnnamedRule == [kind |-> "Rule", name |-> "", target |-> "re1"]
UnnamedRuleEndpoint ==
    [kind |-> "RuleEndpoint", name |-> "", ruleEndpointType |-> "rest"]
UnnamedEdgeCluster ==
    [kind |-> "EdgeCluster", name |-> "", receivedMissions |-> << >>]

\* an event about such an object; the store of named objects is as it was
InformUnnamed ==
    /\ nEvents < MaxEvents
    /\ \E t \in EventTypes :
        \/ /\ Len(podQ) < MaxQueue
           /\ podQ' = Append(podQ, Event(t, UnnamedPod))
           /\ UNCHANGED << configMapQ, secretQ, nodeQ, missionQ, edgeClusterQ,
                           ruleQ, ruleEndpointQ >>
        \/ /\ Len(nodeQ) < MaxQueue
           /\ nodeQ' = Append(nodeQ, Event(t, UnnamedNode))
           /\ UNCHANGED << podQ, configMapQ, secretQ, missionQ, edgeClusterQ,
                           ruleQ, ruleEndpointQ >>
        \/ /\ Len(edgeClusterQ) < MaxQueue
           /\ edgeClusterQ' = Append(edgeClusterQ, Event(t, UnnamedEdgeCluster))
           /\ UNCHANGED << podQ, configMapQ, secretQ, nodeQ, missionQ,
                           ruleQ, ruleEndpointQ >>
        \/ /\ Len(ruleQ) < MaxQueue
           /\ ruleQ' = Append(ruleQ, Event(t, UnnamedRule))
           /\ UNCHANGED << queues, ruleEndpointQ >>
        \/ /\ Len(ruleEndpointQ) < MaxQueue
           /\ ruleEndpointQ' = Append(ruleEndpointQ, Event(t, UnnamedRuleEndpoint))
           /\ UNCHANGED << queues, ruleQ >>
    /\ nEvents' = nEvents + 1
    /\ UNCHANGED << upstream, upRules, upRuleEndpoints, locals, cache, sent,
                    lifecycle, layer >>

(***************************************************************************)
(* syncPod.                                                                *)
(***************************************************************************)
\* a switch whose Deleted case builds the router of the Modified case
PodOperation_DeletedAsUpdate(t) ==
    CASE t = Added -> InsertOperation
      [] t = Deleted -> UpdateOperation
      [] t = Modified -> UpdateOperation
      [] OTHER -> NoOperation

\* the switch on e.Type: the operation of the message
PodOperation(t) ==
    CASE t = Added -> InsertOperation
      [] t = Deleted -> DeleteOperation
      [] t = Modified -> UpdateOperation
      [] OTHER -> NoOperation

\* a switch whose Modified case leaves AddOrUpdatePod out
PodRefreshes_AddedOnly(t) == t = Added

\* a switch whose Deleted case calls AddOrUpdatePod as well
PodRefreshes_OnDeleted(t) == t \in {Added, Modified, Deleted}

\* the switch on e.Type: the cases that call dc.lc.AddOrUpdatePod
PodRefreshes(t) == t \in {Added, Modified}

\* the filter of the handler: whether the event goes on to the switch
PodPasses(en, pod) ==
    /\ IsEdgeNode(en, pod.nodeName)
    /\ ~ BuildResource(pod.nodeName, pod.namespace, "pod", pod.name).err

PodMessage(e) ==
    Message(BuildResource(e.object.nodeName, e.object.namespace, "pod",
                          e.object.name).resource,
            PodOperation(e.type), e.object)

\* receive; type assertion; IsEdgeNode; BuildResource
SyncPodRecv ==
    /\ Runs("pod")
    /\ podCur = NoEvent
    /\ podQ # << >>
    /\ podQ' = Tail(podQ)
    /\ podCur' = IF /\ Head(podQ).object.kind = "Pod"
                    /\ PodPasses(edgeNodes, Head(podQ).object)
                    /\ PodOperation(Head(podQ).type) # NoOperation
                 THEN Head(podQ) ELSE NoEvent
    /\ UNCHANGED << upstream, configMapQ, secretQ, nodeQ, missionQ, edgeClusterQ,
                    configMapCur, secretCur, missionCur, cache, sent, nEvents >>
    /\ UNCHANGED << router, lifecycle, layer >>

\* the switch: AddOrUpdatePod on Added and Modified; SendMessage
SyncPodAct ==
    /\ podCur # NoEvent
    /\ LET lc == AddOrUpdatePod(configMapNode, secretNode, podIndex, podCur.object)
       IN  IF PodRefreshes(podCur.type)
           THEN /\ configMapNode' = lc.configMapNode
                /\ secretNode' = lc.secretNode
                /\ podIndex' = lc.podIndex
           ELSE UNCHANGED << configMapNode, secretNode, podIndex >>
    /\ Sends(<< PodMessage(podCur) >>)
    /\ podCur' = NoEvent
    /\ UNCHANGED << upstream, queues, configMapCur, secretCur, missionCur,
                    edgeNodes, edgeClusters, nEvents >>
    /\ UNCHANGED << router, lifecycle >>

(***************************************************************************)
(* syncConfigMap and syncSecret.                                           *)
(***************************************************************************)
\* the orders in which a snapshot may list a value set
Orders(S) ==
    {f \in [1..Cardinality(S) -> S] : \A i, j \in DOMAIN f : f[i] = f[j] => i = j}

\* the for loop over the snapshot: one message per node whose resource builds
RECURSIVE FanOut(_, _, _, _)
FanOut(nodes, resourceType, operation, object) ==
    IF nodes = << >> THEN << >>
    ELSE LET r == BuildResource(Head(nodes), object.namespace, resourceType,
                                object.name)
         IN  (IF r.err THEN << >>
              ELSE << Message(r.resource, operation, object) >>)
                 \o FanOut(Tail(nodes), resourceType, operation, object)

\* the switch of syncSecret in syncConfigMap: Added falls through to Modified
ConfigMapOperation_AddedFallsThrough(t) ==
    CASE t = Added -> UpdateOperation
      [] t = Modified -> UpdateOperation
      [] t = Deleted -> DeleteOperation
      [] OTHER -> NoOperation

ConfigMapOperation(t) ==
    CASE t = Added -> InsertOperation
      [] t = Modified -> UpdateOperation
      [] t = Deleted -> DeleteOperation
      [] OTHER -> NoOperation

\* the switch without the fallthrough: Added maps to insert
SecretOperation_AddedAsInsert(t) ==
    CASE t = Added -> InsertOperation
      [] t = Modified -> UpdateOperation
      [] t = Deleted -> DeleteOperation
      [] OTHER -> NoOperation

SecretOperation(t) ==
    CASE t = Added -> UpdateOperation
      [] t = Modified -> UpdateOperation
      [] t = Deleted -> DeleteOperation
      [] OTHER -> NoOperation

\* the snapshot taken after DeleteConfigMap: a Deleted event finds no entry
ConfigMapDestinations_AfterDelete(idx, e) ==
    IF e.type = Deleted THEN {}
    ELSE IndexNodes(idx, e.object.namespace, e.object.name)

\* nodes := dc.lc.ConfigMapNodes(configMap.Namespace, configMap.Name)
ConfigMapDestinations(idx, e) == IndexNodes(idx, e.object.namespace, e.object.name)

\* nodes := dc.lc.SecretNodes(secret.Namespace, secret.Name)
SecretDestinations(idx, e) == IndexNodes(idx, e.object.namespace, e.object.name)

Holding(e, nodes) == [type |-> e.type, object |-> e.object, nodes |-> nodes]

\* a handler that takes the newest event of the channel
SyncConfigMapRecv_TakesNewest ==
    /\ Runs("configmap")
    /\ configMapCur = NoEvent
    /\ configMapQ # << >>
    /\ configMapQ' = SubSeq(configMapQ, 1, Len(configMapQ) - 1)
    /\ LET e == configMapQ[Len(configMapQ)]
       IN  IF e.object.kind # "ConfigMap" \/ ConfigMapOperation(e.type) = NoOperation
           THEN UNCHANGED configMapCur /\ Sends(<< >>)
           ELSE \E nodes \in Orders(ConfigMapDestinations(configMapNode, e)) :
                  IF e.type = Deleted
                  THEN /\ configMapCur' = Holding(e, nodes)
                       /\ Sends(<< >>)
                  ELSE /\ configMapCur' = NoEvent
                       /\ Sends(FanOut(nodes, "configmap",
                                       ConfigMapOperation(e.type), e.object))
    /\ UNCHANGED << upstream, podQ, secretQ, nodeQ, missionQ, edgeClusterQ,
                    podCur, secretCur, missionCur, cache, nEvents >>
    /\ UNCHANGED << router, lifecycle >>

\* receive; type assertion; operation; the snapshot; unless the event is a
\* Deleted, whose DeleteConfigMap comes next, the fan-out
SyncConfigMapRecv ==
    /\ Runs("configmap")
    /\ configMapCur = NoEvent
    /\ configMapQ # << >>
    /\ configMapQ' = Tail(configMapQ)
    /\ LET e == Head(configMapQ)
       IN  IF e.object.kind # "ConfigMap" \/ ConfigMapOperation(e.type) = NoOperation
           THEN UNCHANGED configMapCur /\ Sends(<< >>)
           ELSE \E nodes \in Orders(ConfigMapDestinations(configMapNode, e)) :
                  IF e.type = Deleted
                  THEN /\ configMapCur' = Holding(e, nodes)
                       /\ Sends(<< >>)
                  ELSE /\ configMapCur' = NoEvent
                       /\ Sends(FanOut(nodes, "configmap",
                                       ConfigMapOperation(e.type), e.object))
    /\ UNCHANGED << upstream, podQ, secretQ, nodeQ, missionQ, edgeClusterQ,
                    podCur, secretCur, missionCur, cache, nEvents >>
    /\ UNCHANGED << router, lifecycle >>

\* DeleteConfigMap, then the fan-out of the Deleted event
SyncConfigMapDelete ==
    /\ configMapCur # NoEvent
    /\ configMapNode' = DeleteIndexEntry(configMapNode, configMapCur.object.namespace,
                                         configMapCur.object.name)
    /\ Sends(FanOut(configMapCur.nodes, "configmap",
                    ConfigMapOperation(configMapCur.type), configMapCur.object))
    /\ configMapCur' = NoEvent
    /\ UNCHANGED << upstream, queues, podCur, secretCur, missionCur,
                    edgeNodes, secretNode, podIndex, edgeClusters, nEvents >>
    /\ UNCHANGED << router, lifecycle >>

SyncSecretRecv ==
    /\ Runs("secret")
    /\ secretCur = NoEvent
    /\ secretQ # << >>
    /\ secretQ' = Tail(secretQ)
    /\ LET e == Head(secretQ)
       IN  IF e.object.kind # "Secret" \/ SecretOperation(e.type) = NoOperation
           THEN UNCHANGED secretCur /\ Sends(<< >>)
           ELSE \E nodes \in Orders(SecretDestinations(secretNode, e)) :
                  IF e.type = Deleted
                  THEN /\ secretCur' = Holding(e, nodes)
                       /\ Sends(<< >>)
                  ELSE /\ secretCur' = NoEvent
                       /\ Sends(FanOut(nodes, "secret",
                                       SecretOperation(e.type), e.object))
    /\ UNCHANGED << upstream, podQ, configMapQ, nodeQ, missionQ, edgeClusterQ,
                    podCur, configMapCur, missionCur, cache, nEvents >>
    /\ UNCHANGED << router, lifecycle >>

SyncSecretDelete ==
    /\ secretCur # NoEvent
    /\ secretNode' = DeleteIndexEntry(secretNode, secretCur.object.namespace,
                                      secretCur.object.name)
    /\ Sends(FanOut(secretCur.nodes, "secret",
                    SecretOperation(secretCur.type), secretCur.object))
    /\ secretCur' = NoEvent
    /\ UNCHANGED << upstream, queues, podCur, configMapCur, missionCur,
                    edgeNodes, configMapNode, podIndex, edgeClusters, nEvents >>
    /\ UNCHANGED << router, lifecycle >>

(***************************************************************************)
(* syncEdgeNodes.                                                          *)
(***************************************************************************)
\* the loop over node.Status.Conditions: UpdateEdgeNode for each Ready one
RECURSIVE SyncNodeConditions(_, _, _)
SyncNodeConditions(en, name, conditions) ==
    IF conditions = << >> THEN en
    ELSE SyncNodeConditions(
            IF Head(conditions).type # NodeReady THEN en
            ELSE UpdateEdgeNode(en, name, Head(conditions).status),
            name, Tail(conditions))

\* the message of the Deleted case, if its resource builds
NodeDeleteMessages(node) ==
    LET r == BuildResource(node.name, "namespace", "node", node.name)
    IN  IF r.err THEN << >> ELSE << Message(r.resource, DeleteOperation, "") >>

\* a handler that takes the node out of a tombstone and goes on with it
SyncEdgeNodes_UnwrapsTombstone ==
    /\ Runs("node")
    /\ nodeQ # << >>
    /\ nodeQ' = Tail(nodeQ)
    /\ LET e == Head(nodeQ)
           node == IF e.object.kind = "Node" THEN e.object ELSE e.object.obj
       IN  IF e.type \in {Added, Modified}
           THEN /\ edgeNodes' = SyncNodeConditions(edgeNodes, node.name,
                                                   node.conditions)
                /\ UNCHANGED << configMapNode, secretNode, podIndex,
                                edgeClusters >>
                /\ Sends(<< >>)
           ELSE /\ edgeNodes' = DeleteNodeEdgeNodes(edgeNodes, node.name)
                /\ configMapNode' = DeleteNodeIndex(configMapNode, node.name)
                /\ secretNode' = DeleteNodeIndex(secretNode, node.name)
                /\ Sends(NodeDeleteMessages(node))
                /\ UNCHANGED << podIndex, edgeClusters >>
    /\ UNCHANGED << upstream, podQ, configMapQ, secretQ, missionQ, edgeClusterQ,
                    locals, nEvents >>
    /\ UNCHANGED << router, lifecycle >>

SyncEdgeNodes ==
    /\ Runs("node")
    /\ nodeQ # << >>
    /\ nodeQ' = Tail(nodeQ)
    /\ LET e == Head(nodeQ)
       IN  IF e.object.kind # "Node" THEN UNCHANGED cache /\ Sends(<< >>)
           ELSE IF e.type \in {Added, Modified}
           THEN /\ edgeNodes' = SyncNodeConditions(edgeNodes, e.object.name,
                                                   e.object.conditions)
                /\ UNCHANGED << configMapNode, secretNode, podIndex,
                                edgeClusters >>
                /\ Sends(<< >>)
           ELSE IF e.type = Deleted
           THEN /\ edgeNodes' = DeleteNodeEdgeNodes(edgeNodes, e.object.name)
                /\ configMapNode' = DeleteNodeIndex(configMapNode, e.object.name)
                /\ secretNode' = DeleteNodeIndex(secretNode, e.object.name)
                /\ Sends(NodeDeleteMessages(e.object))
                /\ UNCHANGED << podIndex, edgeClusters >>
           ELSE UNCHANGED cache /\ Sends(<< >>)
    /\ UNCHANGED << upstream, podQ, configMapQ, secretQ, missionQ, edgeClusterQ,
                    locals, nEvents >>
    /\ UNCHANGED << router, lifecycle >>

(***************************************************************************)
(* syncRule and syncRuleEndpoint.                                          *)
(***************************************************************************)
\* a switch whose Modified case builds an update router
RuleOperation_ModifiedAsUpdate(t) ==
    CASE t = Added -> InsertOperation
      [] t = Deleted -> DeleteOperation
      [] t = Modified -> UpdateOperation
      [] OTHER -> NoOperation

\* the switch on e.Type: Modified is logged as unsupported
RuleOperation(t) ==
    CASE t = Added -> InsertOperation
      [] t = Deleted -> DeleteOperation
      [] t = Modified -> NoOperation
      [] OTHER -> NoOperation

RuleEndpointOperation(t) ==
    CASE t = Added -> InsertOperation
      [] t = Deleted -> DeleteOperation
      [] t = Modified -> NoOperation
      [] OTHER -> NoOperation

\* the message of the event, if its resource builds and its type is supported
RouterMessages(resourceType, operation, object) ==
    LET r == BuildResourceForRouter(resourceType, object.name)
    IN  IF r.err \/ operation = NoOperation THEN << >>
        ELSE << Message(r.resource, operation, object) >>

SyncRule ==
    /\ Runs("rule")
    /\ ruleQ # << >>
    /\ ruleQ' = Tail(ruleQ)
    /\ LET e == Head(ruleQ)
       IN  IF e.object.kind # "Rule" THEN Sends(<< >>)
           ELSE Sends(RouterMessages("rule", RuleOperation(e.type), e.object))
    /\ UNCHANGED << upstream, queues, locals, cache, nEvents, upRules,
                    upRuleEndpoints, ruleEndpointQ, lifecycle >>

SyncRuleEndpoint ==
    /\ Runs("ruleendpoint")
    /\ ruleEndpointQ # << >>
    /\ ruleEndpointQ' = Tail(ruleEndpointQ)
    /\ LET e == Head(ruleEndpointQ)
       IN  IF e.object.kind # "RuleEndpoint" THEN Sends(<< >>)
           ELSE Sends(RouterMessages("ruleendpoint", RuleEndpointOperation(e.type),
                                     e.object))
    /\ UNCHANGED << upstream, queues, locals, cache, nEvents, upRules,
                    upRuleEndpoints, ruleQ, lifecycle >>

(***************************************************************************)
(* syncMissions.  dc.lc.EdgeClusters is a sync.Map: Range walks the keys   *)
(* it finds when it starts and calls the function for each key that is     *)
(* still in the map when the walk reaches it; the walk is not atomic.      *)
(***************************************************************************)
\* a switch whose Modified case sets the operation of the Added case
MissionOperation_ModifiedAsInsert(t) ==
    CASE t = Added -> InsertOperation
      [] t = Modified -> InsertOperation
      [] t = Deleted -> DeleteOperation
      [] OTHER -> NoOperation

MissionOperation(t) ==
    CASE t = Added -> InsertOperation
      [] t = Modified -> UpdateOperation
      [] t = Deleted -> DeleteOperation
      [] OTHER -> NoOperation

\* the function Range calls for clusterName
MissionMessages(clusterName, operation, mission) ==
    LET r == BuildResource(clusterName, "default", "mission", mission.name)
    IN  IF r.err THEN << >> ELSE << Message(r.resource, operation, mission) >>

\* the keys Range starts to walk
RangeKeys(ec) == DOMAIN ec

\* receive; type assertion; operation; Range starts
SyncMissionsRecv ==
    /\ Runs("mission")
    /\ missionCur = NoEvent
    /\ missionQ # << >>
    /\ missionQ' = Tail(missionQ)
    /\ LET e == Head(missionQ)
       IN  missionCur' =
             IF \/ e.object.kind # "Mission"
                \/ MissionOperation(e.type) = NoOperation
                \/ RangeKeys(edgeClusters) = {}
             THEN NoEvent
             ELSE [type |-> e.type, object |-> e.object,
                   pending |-> RangeKeys(edgeClusters)]
    /\ UNCHANGED << upstream, podQ, configMapQ, secretQ, nodeQ, edgeClusterQ,
                    podCur, configMapCur, secretCur, cache, sent, nEvents >>
    /\ UNCHANGED << router, lifecycle, layer >>

\* Range reaches one more key
SyncMissionsVisit ==
    /\ missionCur # NoEvent
    /\ \E c \in missionCur.pending :
        /\ Sends(IF c \in DOMAIN edgeClusters
                 THEN MissionMessages(c, MissionOperation(missionCur.type),
                                      missionCur.object)
                 ELSE << >>)
        /\ missionCur' = IF missionCur.pending = {c} THEN NoEvent
                         ELSE [missionCur EXCEPT !.pending = @ \ {c}]
    /\ UNCHANGED << upstream, queues, podCur, configMapCur, secretCur,
                    cache, nEvents >>
    /\ UNCHANGED << router, lifecycle >>

(***************************************************************************)
(* syncEdgeClusters.                                                       *)
(***************************************************************************)
\* dc.missionLister.List(labels.Everything()): the missions of the store
MissionList == upMissions

MissionNamesOf(missions) == {m.name : m \in missions}

\* missionsInEdgeSet: the names of the list as the keys of a map
MissionsInEdgeSet(missionsInEdge) ==
    {missionsInEdge[i] : i \in DOMAIN missionsInEdge}

\* a comparison of how many missions the edge and the cloud have
MissionListMessages_ComparesCounts(edgeCluster, missionList) ==
    IF Len(edgeCluster.receivedMissions) = Cardinality(missionList) THEN << >>
    ELSE << Message(BuildResource(edgeCluster.name, "default", "missionlist",
                                  "").resource,
                    UpdateOperation, missionList) >>

\* the message of the Added and Modified cases; the error of BuildResource
\* is not looked at
MissionListMessages(edgeCluster, missionList) ==
    IF MissionsInEdgeSet(edgeCluster.receivedMissions) = MissionNamesOf(missionList)
    THEN << >>
    ELSE << Message(BuildResource(edgeCluster.name, "default", "missionlist",
                                  "").resource,
                    UpdateOperation, missionList) >>

\* a handler whose Added and Modified cases store the cluster in the cache
SyncEdgeClusters_RegistersAdded ==
    /\ Runs("edgecluster")
    /\ edgeClusterQ # << >>
    /\ edgeClusterQ' = Tail(edgeClusterQ)
    /\ LET e == Head(edgeClusterQ)
       IN  IF e.object.kind # "EdgeCluster"
           THEN UNCHANGED edgeClusters /\ Sends(<< >>)
           ELSE IF e.type \in {Added, Modified}
           THEN /\ Sends(MissionListMessages(e.object, MissionList))
                /\ edgeClusters' = UpdateEdgeCluster(edgeClusters,
                                                     e.object.name, TRUE)
           ELSE IF e.type = Deleted
           THEN /\ edgeClusters' = DeleteEdgeCluster(edgeClusters, e.object.name)
                /\ Sends(<< >>)
           ELSE UNCHANGED edgeClusters /\ Sends(<< >>)
    /\ UNCHANGED << upstream, podQ, configMapQ, secretQ, nodeQ, missionQ,
                    locals, edgeNodes, configMapNode, secretNode, podIndex,
                    nEvents >>
    /\ UNCHANGED << router, lifecycle >>

SyncEdgeClusters ==
    /\ Runs("edgecluster")
    /\ edgeClusterQ # << >>
    /\ edgeClusterQ' = Tail(edgeClusterQ)
    /\ LET e == Head(edgeClusterQ)
       IN  IF e.object.kind # "EdgeCluster"
           THEN UNCHANGED edgeClusters /\ Sends(<< >>)
           ELSE IF e.type \in {Added, Modified}
           THEN /\ Sends(MissionListMessages(e.object, MissionList))
                /\ UNCHANGED edgeClusters
           ELSE IF e.type = Deleted
           THEN /\ edgeClusters' = DeleteEdgeCluster(edgeClusters, e.object.name)
                /\ Sends(<< >>)
           ELSE UNCHANGED edgeClusters /\ Sends(<< >>)
    /\ UNCHANGED << upstream, podQ, configMapQ, secretQ, nodeQ, missionQ,
                    locals, edgeNodes, configMapNode, secretNode, podIndex,
                    nEvents >>
    /\ UNCHANGED << router, lifecycle >>

(***************************************************************************)
(* The controller after Start: the loops and the informers run             *)
(* concurrently.                                                           *)
(***************************************************************************)
Next ==
    \/ InformPod
    \/ InformConfigMap
    \/ InformSecret
    \/ InformNode
    \/ SyncPodRecv
    \/ SyncPodAct
    \/ SyncConfigMapRecv
    \/ SyncConfigMapDelete
    \/ SyncSecretRecv
    \/ SyncSecretDelete
    \/ SyncEdgeNodes

Spec == Init /\ [][Next]_vars

NextMissions ==
    \/ InformMission
    \/ InformEdgeCluster
    \/ SyncMissionsRecv
    \/ SyncMissionsVisit
    \/ SyncEdgeClusters

SpecMissions == InitMissions /\ [][NextMissions]_vars

\* a store of rules and rule endpoints
InitRouter ==
    /\ upNodes = {}
    /\ upPods = {}
    /\ upConfigMaps = {}
    /\ upSecrets = {}
    /\ upMissions = {}
    /\ upClusters = {}
    /\ upRules \in NamedSets(RuleNames, RuleObjects)
    /\ upRuleEndpoints \in NamedSets(RuleEndpointNames, RuleEndpointObjects)
    /\ Constructed
    /\ Started
    /\ Reliable

NextRouter ==
    \/ InformRule
    \/ InformRuleEndpoint
    \/ SyncRule
    \/ SyncRuleEndpoint

SpecRouter == InitRouter /\ [][NextRouter]_vars

(***************************************************************************)
(* Construction and Start.  NewDownstreamController builds the managers    *)
(* and runs initLocating; it returns the controller, or nil and the first  *)
(* error.  Start launches the loops of a controller and returns nil.       *)
(***************************************************************************)
\* a construction that returns the controller whatever initLocating returns
Constructs_IgnoresListError(fault) ==
    IF fault = "manager" THEN "failed" ELSE "built"

\* what NewDownstreamController returns: dc, nil or nil, err
Constructs(fault) == IF fault = "none" THEN "built" ELSE "failed"

NewDownstreamController ==
    /\ controller = "unbuilt"
    /\ LET lc == IF startupFault = "manager" THEN EmptyCache
                 ELSE InitLocatingFrom(EmptyCache, ListOf(upNodes), ListOf(upPods),
                                       ListOf(upClusters), startupFault)
       IN  /\ edgeNodes' = lc.edgeNodes
           /\ configMapNode' = lc.configMapNode
           /\ secretNode' = lc.secretNode
           /\ podIndex' = lc.podIndex
           /\ edgeClusters' = lc.edgeClusters
    /\ controller' = Constructs(startupFault)
    /\ UNCHANGED << upstream, queues, locals, sent, nEvents, router, done,
                    running, startupFault, layer >>

\* initLocating once more, on the cache of the controller
InitLocatingAgain ==
    /\ controller = "built"
    /\ LET lc == InitLocatingFrom(
                    [edgeNodes |-> edgeNodes, configMapNode |-> configMapNode,
                     secretNode |-> secretNode, podIndex |-> podIndex,
                     edgeClusters |-> edgeClusters],
                    ListOf(upNodes), ListOf(upPods), ListOf(upClusters), "none")
       IN  /\ edgeNodes' = lc.edgeNodes
           /\ configMapNode' = lc.configMapNode
           /\ secretNode' = lc.secretNode
           /\ podIndex' = lc.podIndex
           /\ edgeClusters' = lc.edgeClusters
    /\ UNCHANGED << upstream, queues, locals, sent, nEvents, router, lifecycle,
                    layer >>

\* Start: one goroutine per loop; return nil
Start ==
    /\ controller = "built"
    /\ controller' = "started"
    /\ running' = Loops
    /\ UNCHANGED << upstream, queues, locals, cache, sent, nEvents, router,
                    done, startupFault, layer >>

\* what Start has returned
StartReturn == IF controller = "started" THEN "nil" ELSE "none"

\* the edge clusters of the store at construction have received no mission
StartupClusterSets ==
    {S \in InitialClusterSets :
        /\ \A o \in S : o.receivedMissions = << >>
        /\ NameIn(S, "ec2") => NameIn(S, "ec1")}

\* before NewDownstreamController: a store, an empty LocationCache, and the
\* call of the construction that will return an error, if one will
InitStartup ==
    /\ upNodes \in InitialNodeSets
    /\ upPods \in InitialPodSets
    /\ upConfigMaps = ConfigMapObjects
    /\ upSecrets = SecretObjects
    /\ upMissions = {}
    /\ upClusters \in StartupClusterSets
    /\ upRules = {}
    /\ upRuleEndpoints = {}
    /\ edgeNodes = EmptyMap /\ configMapNode = EmptyMap /\ secretNode = EmptyMap
    /\ podIndex = EmptyMap /\ edgeClusters = EmptyMap
    /\ podQ = << >> /\ configMapQ = << >> /\ secretQ = << >>
    /\ nodeQ = << >> /\ missionQ = << >> /\ edgeClusterQ = << >>
    /\ ruleQ = << >> /\ ruleEndpointQ = << >>
    /\ podCur = NoEvent /\ configMapCur = NoEvent
    /\ secretCur = NoEvent /\ missionCur = NoEvent
    /\ sent = << >>
    /\ nEvents = 0
    /\ startupFault \in StartupFaults \cup {"none"}
    /\ controller = "unbuilt"
    /\ done = FALSE
    /\ running = {}
    /\ Reliable

NextStartup ==
    \/ NewDownstreamController
    \/ InitLocatingAgain
    \/ Start
    \/ InformPod
    \/ InformNode
    \/ InformEdgeCluster
    \/ SyncPodRecv
    \/ SyncPodAct
    \/ SyncEdgeNodes
    \/ SyncEdgeClusters

SpecStartup == InitStartup /\ [][NextStartup]_vars

\* a message layer whose Send may return an error
Unreliable ==
    /\ sendFailed = {}
    /\ sendFaults = MaxSendFaults

\* a store with two nodes, a pod on each that mounts the configmap and
\* the secret, a mission, two edge clusters, a rule and a rule endpoint
SampleStore ==
    /\ upNodes = {[kind |-> "Node", name |-> n,
                   conditions |-> << Cond(NodeReady, "False") >>] : n \in NodeNames}
    /\ upPods = {[kind |-> "Pod", name |-> "p1", namespace |-> Namespace,
                  nodeName |-> "n1", configMaps |-> ConfigMapNames,
                  secrets |-> SecretNames],
                 [kind |-> "Pod", name |-> "p2", namespace |-> Namespace,
                  nodeName |-> "n2", configMaps |-> ConfigMapNames,
                  secrets |-> SecretNames]}
    /\ upConfigMaps = ConfigMapObjects
    /\ upSecrets = SecretObjects
    /\ upMissions = {[kind |-> "Mission", name |-> "m1"]}
    /\ upClusters = {[kind |-> "EdgeCluster", name |-> c,
                      receivedMissions |-> << "m1" >>] : c \in ClusterNames}
    /\ upRules = {[kind |-> "Rule", name |-> "r1", target |-> "re1"]}
    /\ upRuleEndpoints = {[kind |-> "RuleEndpoint", name |-> "re1",
                           ruleEndpointType |-> "rest"]}

InitFaults ==
    /\ SampleStore
    /\ Constructed
    /\ Started
    /\ Unreliable

NextFaults ==
    \/ InformPod
    \/ InformConfigMap
    \/ InformSecret
    \/ InformNode
    \/ InformRule
    \/ InformRuleEndpoint
    \/ InformMission
    \/ InformEdgeCluster
    \/ InformTombstone
    \/ InformUnnamed
    \/ SyncPodRecv
    \/ SyncPodAct
    \/ SyncConfigMapRecv
    \/ SyncConfigMapDelete
    \/ SyncSecretRecv
    \/ SyncSecretDelete
    \/ SyncEdgeNodes
    \/ SyncRule
    \/ SyncRuleEndpoint
    \/ SyncMissionsRecv
    \/ SyncMissionsVisit
    \/ SyncEdgeClusters

SpecFaults == InitFaults /\ [][NextFaults]_vars

(***************************************************************************)
(* Shutdown.  beehiveContext.Done() is closed once; a loop at its select   *)
(* whose Done case is ready may return.  When an event is ready as well,   *)
(* the select takes either case.                                           *)
(***************************************************************************)
Cancel ==
    /\ ~ done
    /\ done' = TRUE
    /\ UNCHANGED << upstream, queues, locals, cache, sent, nEvents, router,
                    controller, running, startupFault, layer >>

\* the loop is at the select of its for loop
AtSelect(loop) ==
    CASE loop = "pod" -> podCur = NoEvent
      [] loop = "configmap" -> configMapCur = NoEvent
      [] loop = "secret" -> secretCur = NoEvent
      [] loop = "mission" -> missionCur = NoEvent
      [] OTHER -> TRUE

\* case <-beehiveContext.Done(): return
Stop(loop) ==
    /\ done
    /\ loop \in running
    /\ AtSelect(loop)
    /\ running' = running \ {loop}
    /\ UNCHANGED << upstream, queues, locals, cache, sent, nEvents, router,
                    controller, done, startupFault, layer >>

\* a store with one object of every kind
SmallStore ==
    /\ upNodes = {[kind |-> "Node", name |-> "n1",
                   conditions |-> << Cond(NodeReady, ConditionTrue) >>]}
    /\ upPods = {[kind |-> "Pod", name |-> "p1", namespace |-> Namespace,
                  nodeName |-> "n1", configMaps |-> ConfigMapNames,
                  secrets |-> SecretNames]}
    /\ upConfigMaps = ConfigMapObjects
    /\ upSecrets = SecretObjects
    /\ upMissions = {[kind |-> "Mission", name |-> "m1"]}
    /\ upClusters = {[kind |-> "EdgeCluster", name |-> "ec1",
                      receivedMissions |-> << "m1" >>]}
    /\ upRules = {[kind |-> "Rule", name |-> "r1", target |-> "re1"]}
    /\ upRuleEndpoints = {[kind |-> "RuleEndpoint", name |-> "re1",
                           ruleEndpointType |-> "rest"]}

\* the channel of the loop, holding the update of an object of the store
\* when the loop is one of `pending`
Pending(pending, loop, objs, name) ==
    IF loop \in pending THEN << Event(Modified, ByName(objs, name)) >> ELSE << >>

\* the started controller with an update pending on some of the channels
InitCancel ==
    /\ SmallStore
    /\ Primed
    /\ \E pending \in {P \in SUBSET Loops : Cardinality(P) <= MaxPending} :
        /\ podQ = Pending(pending, "pod", upPods, "p1")
        /\ configMapQ = Pending(pending, "configmap", upConfigMaps, "c1")
        /\ secretQ = Pending(pending, "secret", upSecrets, "s1")
        /\ nodeQ = Pending(pending, "node", upNodes, "n1")
        /\ ruleQ = Pending(pending, "rule", upRules, "r1")
        /\ ruleEndpointQ = Pending(pending, "ruleendpoint", upRuleEndpoints, "re1")
        /\ missionQ = Pending(pending, "mission", upMissions, "m1")
        /\ edgeClusterQ = Pending(pending, "edgecluster", upClusters, "ec1")
        /\ nEvents = Cardinality(pending)
    /\ podCur = NoEvent /\ configMapCur = NoEvent
    /\ secretCur = NoEvent /\ missionCur = NoEvent
    /\ sent = << >>
    /\ Started
    /\ Reliable

NextCancel ==
    \/ Cancel
    \/ \E loop \in Loops : Stop(loop)
    \/ SyncPodRecv
    \/ SyncPodAct
    \/ SyncConfigMapRecv
    \/ SyncSecretRecv
    \/ SyncEdgeNodes
    \/ SyncRule
    \/ SyncRuleEndpoint
    \/ SyncMissionsRecv
    \/ SyncMissionsVisit
    \/ SyncEdgeClusters

SpecCancel == InitCancel /\ [][NextCancel]_vars

\* every goroutine is scheduled: a handler goes on to its end, and a loop
\* that stays at its select with the Done case ready takes a case
CancelFairness ==
    /\ WF_vars(SyncPodAct)
    /\ WF_vars(SyncMissionsVisit)
    /\ \A loop \in Loops : WF_vars(Stop(loop))

SpecCancelFair == SpecCancel /\ CancelFairness

(***************************************************************************)
(* What a step of a loop does, read off the state.                         *)
(***************************************************************************)
\* the loop of the channel takes its next event
Receives(q) == Len(q') < Len(q)

\* a loop that holds an event finishes its handler
Finishes(cur) == cur # NoEvent /\ cur' = NoEvent

\* the messages the step hands to the message layer
NewMessages == SubSeq(sent', Len(sent) + 1, Len(sent'))

Extends == Len(sent') >= Len(sent) /\ SubSeq(sent', 1, Len(sent)) = sent

Elements(seq) == {seq[i] : i \in DOMAIN seq}

\* the operation an event type maps to
DirectOperation(t) ==
    IF t = Added THEN "insert" ELSE IF t = Modified THEN "update" ELSE "delete"

\* msgs holds one message for each node of dests and nothing else
OnePerDestination(msgs, dests, resourceType, operation, object) ==
    /\ Len(msgs) = Cardinality(dests)
    /\ Elements(msgs) =
         {Message(<< n, object.namespace, resourceType, object.name >>,
                  operation, object) : n \in dests}

OfKind(msg, resourceType) ==
    Len(msg.resource) = 4 /\ msg.resource[3] = resourceType

\* every loop is idle and every channel empty
Quiescent ==
    /\ podQ = << >> /\ configMapQ = << >> /\ secretQ = << >>
    /\ nodeQ = << >> /\ missionQ = << >> /\ edgeClusterQ = << >>
    /\ podCur = NoEvent /\ configMapCur = NoEvent
    /\ secretCur = NoEvent /\ missionCur = NoEvent

(***************************************************************************)
(* C1.  In every reachable state, every node name in a value set of        *)
(* ConfigMapNodes or SecretNodes is present in EdgeNodes.                  *)
(***************************************************************************)
IndexedNodes(idx) == UNION {idx[k] : k \in DOMAIN idx}

C1_IndexedNodesAreEdgeNodes ==
    /\ IndexedNodes(configMapNode) \subseteq DOMAIN edgeNodes
    /\ IndexedNodes(secretNode) \subseteq DOMAIN edgeNodes

(***************************************************************************)
(* C2.  For a pod event whose node is in EdgeNodes when the pod loop takes *)
(* it, the loop emits exactly one message, addressed to that node, with    *)
(* the operation insert, update or delete of an Added, Modified or Deleted *)
(* event; for a pod event whose node is not in EdgeNodes (an empty         *)
(* NodeName among them) it emits no message and changes no cache state.    *)
(* The one message is the step that ends the handler; no other step emits  *)
(* a pod message, and the loop takes no event while it holds one.          *)
(***************************************************************************)
C2_PodStep ==
    /\ Extends
    /\ Receives(podQ) =>
         /\ podCur = NoEvent
         /\ NewMessages = << >>
         /\ cache' = cache
         /\ podCur' = IF Head(podQ).object.nodeName \in DOMAIN edgeNodes
                      THEN Head(podQ) ELSE NoEvent
    /\ Finishes(podCur) =>
         NewMessages =
           << Message(<< podCur.object.nodeName, podCur.object.namespace, "pod",
                         podCur.object.name >>,
                      DirectOperation(podCur.type), podCur.object) >>
    /\ (\E i \in DOMAIN NewMessages : OfKind(NewMessages[i], "pod")) =>
         Finishes(podCur)
    /\ podCur # NoEvent => podCur' \in {podCur, NoEvent}

C2_PodFanOut == [][C2_PodStep]_vars

C2_Witness ==
    /\ podCur = NoEvent
    /\ \E i \in DOMAIN sent :
         OfKind(sent[i], "pod") /\ sent[i].operation = "delete"
    /\ \E p \in upPods : p.nodeName = ""

(***************************************************************************)
(* C3.  When the pod loop has processed Added(P) or Modified(P) for a pod  *)
(* whose node passed the edge-node test, P.Spec.NodeName is a member of    *)
(* ConfigMapNodes(C) for every configmap C the pod references and of       *)
(* SecretNodes(S) for every secret S it references.                        *)
(***************************************************************************)
C3_PodStep ==
    Finishes(podCur) /\ podCur.type \in {Added, Modified} =>
        /\ \A c \in podCur.object.configMaps :
             podCur.object.nodeName
                \in IndexNodes(configMapNode', podCur.object.namespace, c)
        /\ \A c \in podCur.object.secrets :
             podCur.object.nodeName
                \in IndexNodes(secretNode', podCur.object.namespace, c)

C3_PodReferencesIndexed == [][C3_PodStep]_vars

C3_Witness ==
    \E i \in DOMAIN sent :
        /\ OfKind(sent[i], "pod") /\ sent[i].operation = "update"
        /\ sent[i].content.configMaps # {} /\ sent[i].content.secrets # {}
        /\ \A c \in sent[i].content.configMaps :
             sent[i].content.nodeName \in IndexNodes(configMapNode, Namespace, c)
        /\ \A c \in sent[i].content.secrets :
             sent[i].content.nodeName \in IndexNodes(secretNode, Namespace, c)

(***************************************************************************)
(* C4.  A configmap or secret that no existing pod on an edge node         *)
(* references has no entry, or an empty one, in ConfigMapNodes or          *)
(* SecretNodes.  Stated for the states in which every delivered event has  *)
(* been processed, so that the cache has seen all the store has.           *)
(***************************************************************************)
ReferencedFromEdge(field, c) ==
    \E p \in upPods : p.nodeName \in DOMAIN edgeNodes /\ c \in p[field]

C4_UnreferencedHaveNoEntry ==
    Quiescent =>
        /\ \A c \in ConfigMapNames :
             ~ ReferencedFromEdge("configMaps", c)
                => IndexNodes(configMapNode, Namespace, c) = {}
        /\ \A c \in SecretNames :
             ~ ReferencedFromEdge("secrets", c)
                => IndexNodes(secretNode, Namespace, c) = {}

(***************************************************************************)
(* C5.  For a configmap event of type Added, Modified or Deleted the       *)
(* configmap loop emits exactly one message per node of                    *)
(* ConfigMapNodes(ns, name) as read when it takes the event, each          *)
(* addressed to that node with the operation insert, update or delete;     *)
(* when the set is empty it emits none.  The messages of a Deleted event   *)
(* leave in the step that ends its handler.                                *)
(***************************************************************************)
\* the held event is e with a snapshot that lists dests
Holds(cur, e, dests) ==
    /\ cur # NoEvent
    /\ cur.type = e.type /\ cur.object = e.object
    /\ Elements(cur.nodes) = dests /\ Len(cur.nodes) = Cardinality(dests)

C5_ConfigMapStep ==
    /\ Extends
    /\ Receives(configMapQ) =>
         LET e == Head(configMapQ)
             dests == IndexNodes(configMapNode, e.object.namespace, e.object.name)
         IN  /\ configMapCur = NoEvent
             /\ IF e.type = Deleted
                THEN Holds(configMapCur', e, dests) /\ NewMessages = << >>
                ELSE /\ configMapCur' = NoEvent
                     /\ OnePerDestination(NewMessages, dests, "configmap",
                                          DirectOperation(e.type), e.object)
    /\ Finishes(configMapCur) =>
         OnePerDestination(NewMessages, Elements(configMapCur.nodes), "configmap",
                           "delete", configMapCur.object)
    /\ (\E i \in DOMAIN NewMessages : OfKind(NewMessages[i], "configmap")) =>
         Receives(configMapQ) \/ Finishes(configMapCur)
    /\ configMapCur # NoEvent => configMapCur' \in {configMapCur, NoEvent}

C5_ConfigMapFanOut == [][C5_ConfigMapStep]_vars

\* a Modified event has gone to two nodes
C5_Witness ==
    \E i, j \in DOMAIN sent :
        /\ OfKind(sent[i], "configmap") /\ sent[i].operation = "update"
        /\ OfKind(sent[j], "configmap") /\ sent[j].operation = "update"
        /\ sent[i].resource[1] # sent[j].resource[1]

(***************************************************************************)
(* C6.  On a Deleted event for a configmap, and for a secret, the          *)
(* destination set is read before the index entry is removed: the read     *)
(* yields the entry as it is when the event is taken and leaves it in      *)
(* place; the step that ends the handler removes the entry and emits a     *)
(* delete message to every node read.                                      *)
(***************************************************************************)
C6_DeletedStep ==
    /\ Receives(configMapQ) /\ Head(configMapQ).type = Deleted =>
         /\ configMapNode' = configMapNode
         /\ Holds(configMapCur', Head(configMapQ),
                  IndexNodes(configMapNode, Head(configMapQ).object.namespace,
                             Head(configMapQ).object.name))
    /\ Finishes(configMapCur) =>
         /\ configMapCur.type = Deleted
         /\ Key(configMapCur.object.namespace, configMapCur.object.name)
               \notin DOMAIN configMapNode'
         /\ OnePerDestination(NewMessages, Elements(configMapCur.nodes),
                              "configmap", "delete", configMapCur.object)
    /\ Receives(secretQ) /\ Head(secretQ).type = Deleted =>
         /\ secretNode' = secretNode
         /\ Holds(secretCur', Head(secretQ),
                  IndexNodes(secretNode, Head(secretQ).object.namespace,
                             Head(secretQ).object.name))
    /\ Finishes(secretCur) =>
         /\ secretCur.type = Deleted
         /\ Key(secretCur.object.namespace, secretCur.object.name)
               \notin DOMAIN secretNode'
         /\ OnePerDestination(NewMessages, Elements(secretCur.nodes),
                              "secret", "delete", secretCur.object)

C6_SnapshotBeforeRemoval == [][C6_DeletedStep]_vars

C6_Witness ==
    /\ configMapCur = NoEvent
    /\ Key(Namespace, "c1") \notin DOMAIN configMapNode
    /\ \E i \in DOMAIN sent :
         OfKind(sent[i], "configmap") /\ sent[i].operation = "delete"

(***************************************************************************)
(* C7.  The secret loop emits one message per node of SecretNodes(ns,      *)
(* name); the message of an Added event carries update, never insert, that *)
(* of a Modified event update and that of a Deleted event delete.          *)
(***************************************************************************)
C7_SecretStep ==
    /\ Extends
    /\ Receives(secretQ) =>
         LET e == Head(secretQ)
             dests == IndexNodes(secretNode, e.object.namespace, e.object.name)
         IN  /\ secretCur = NoEvent
             /\ IF e.type = Deleted
                THEN Holds(secretCur', e, dests) /\ NewMessages = << >>
                ELSE /\ secretCur' = NoEvent
                     /\ OnePerDestination(NewMessages, dests, "secret", "update",
                                          e.object)
    /\ Finishes(secretCur) =>
         OnePerDestination(NewMessages, Elements(secretCur.nodes), "secret",
                           "delete", secretCur.object)
    /\ \A i \in DOMAIN NewMessages :
         OfKind(NewMessages[i], "secret") =>
            /\ NewMessages[i].operation # "insert"
            /\ Receives(secretQ) \/ Finishes(secretCur)

C7_SecretAddedIsUpdate == [][C7_SecretStep]_vars

\* the one event delivered is the Added of a secret a pod on n1 mounts
C7_Witness ==
    /\ nEvents = 1 /\ upConfigMaps = {} /\ upSecrets # {}
    /\ Len(sent) = 1
    /\ OfKind(sent[1], "secret") /\ sent[1].operation = "update"

(***************************************************************************)
(* C8.  Once the edge-node loop has processed Deleted(N), N is not in      *)
(* EdgeNodes and in no value set of ConfigMapNodes or SecretNodes, and     *)
(* exactly one message, a delete routed to N itself (resource kind node),  *)
(* has been emitted.  DeleteNode is the only cache call of the handler, so *)
(* the removal and the emission are one step.  "Once" is from the step on: *)
(* while the store holds no node N and no event of N waits, N stays out of *)
(* the cache.                                                              *)
(***************************************************************************)
InNoIndex(n, cmn, sn) == n \notin IndexedNodes(cmn) /\ n \notin IndexedNodes(sn)

C8_NodeStep ==
    Receives(nodeQ) /\ Head(nodeQ).type = Deleted =>
        LET n == Head(nodeQ).object.name
        IN  /\ n \notin DOMAIN edgeNodes'
            /\ InNoIndex(n, configMapNode', secretNode')
            /\ NewMessages = << Message(<< n, "namespace", "node", n >>, "delete", "") >>

C8_Gone ==
    \A n \in NodeNames :
        ~ NameIn(upNodes, n) /\ (\A i \in DOMAIN nodeQ : nodeQ[i].object.name # n)
            => n \notin DOMAIN edgeNodes /\ InNoIndex(n, configMapNode, secretNode)

C8_NodeDeleted == [][C8_NodeStep]_vars /\ []C8_Gone

(***************************************************************************)
(* C9.  After the edge-node loop processes Added(N) or Modified(N), N is   *)
(* present in EdgeNodes with the status of N's Ready condition, and no     *)
(* message is emitted for the event.                                       *)
(***************************************************************************)
ReadyStatuses(node) ==
    {node.conditions[i].status :
        i \in {j \in DOMAIN node.conditions : node.conditions[j].type = "Ready"}}

C9_NodeStep ==
    Receives(nodeQ) /\ Head(nodeQ).type \in {Added, Modified} =>
        LET node == Head(nodeQ).object
        IN  /\ node.name \in DOMAIN edgeNodes'
            /\ \A st \in ReadyStatuses(node) : edgeNodes'[node.name] = st
            /\ NewMessages = << >>

C9_NodeRegistered == [][C9_NodeStep]_vars

(***************************************************************************)
(* C10.  For a mission event of type Added, Modified or Deleted the        *)
(* mission loop walks the clusters registered in EdgeClusters when it      *)
(* takes the event and emits exactly one message, with the cluster name as *)
(* destination and the operation insert, update or delete, for each of     *)
(* them that is still registered when the walk reaches it, and none for a  *)
(* cluster removed in between; a cluster not in EdgeClusters when the      *)
(* event is taken receives no message.                                     *)
(***************************************************************************)
\* the clusters the walk has still to reach
Remaining(cur) == IF cur = NoEvent THEN {} ELSE cur.pending

\* the walk reaches a cluster
Walks == missionCur # NoEvent /\ missionCur' # missionCur

MissionMessage(c, cur) ==
    Message(<< c, "default", "mission", cur.object.name >>,
            DirectOperation(cur.type), cur.object)

MissionTaken ==
    Receives(missionQ) =>
        /\ missionCur = NoEvent
        /\ NewMessages = << >>
        /\ Remaining(missionCur') = DOMAIN edgeClusters
        /\ missionCur' # NoEvent =>
             /\ missionCur'.type = Head(missionQ).type
             /\ missionCur'.object = Head(missionQ).object

\* the step reaches the cluster c of the walk
Reaches(c) ==
    /\ Remaining(missionCur') = missionCur.pending \ {c}
    /\ missionCur' # NoEvent =>
         /\ missionCur'.type = missionCur.type
         /\ missionCur'.object = missionCur.object

MissionOnlyInWalk ==
    (\E i \in DOMAIN NewMessages : OfKind(NewMessages[i], "mission")) => Walks

C10_MissionStep ==
    /\ Extends
    /\ MissionTaken
    /\ Walks =>
         \E c \in missionCur.pending :
            /\ Reaches(c)
            /\ NewMessages = IF c \in DOMAIN edgeClusters
                             THEN << MissionMessage(c, missionCur) >> ELSE << >>
    /\ MissionOnlyInWalk

C10_MissionFanOut == [][C10_MissionStep]_vars

\* a cluster of the walk has been removed before the walk reaches it
C10_Witness ==
    /\ missionCur # NoEvent
    /\ \E c \in missionCur.pending : c \notin DOMAIN edgeClusters
    /\ \E i \in DOMAIN sent : OfKind(sent[i], "mission")

\* the claim as made: every cluster registered when the event is taken gets
\* its message, so that their number is |EdgeClusters| at event time
C10_OriginalStep ==
    /\ Extends
    /\ MissionTaken
    /\ Walks =>
         \E c \in missionCur.pending :
            /\ Reaches(c)
            /\ NewMessages = << MissionMessage(c, missionCur) >>
    /\ MissionOnlyInWalk

C10_Original == [][C10_OriginalStep]_vars

(***************************************************************************)
(* C11.  For an Added or Modified edge-cluster event the edge-cluster loop *)
(* emits at most one message: exactly one, routed to that cluster, with    *)
(* operation update and the whole cloud mission list as content, when the  *)
(* set of names in the cluster's received list differs from the set of     *)
(* names of the missions listed in the cloud, and none when the two sets   *)
(* are equal.  No other step emits a mission-list message.                 *)
(***************************************************************************)
ReceivedNames(edgeCluster) ==
    {edgeCluster.receivedMissions[i] : i \in DOMAIN edgeCluster.receivedMissions}

CloudNames == {m.name : m \in upMissions}

C11_EdgeClusterStep ==
    /\ Extends
    /\ (Receives(edgeClusterQ) /\ Head(edgeClusterQ).type \in {Added, Modified}) =>
         LET ec == Head(edgeClusterQ).object
         IN  NewMessages =
               IF ReceivedNames(ec) = CloudNames THEN << >>
               ELSE << Message(<< ec.name, "default", "missionlist", "" >>,
                               "update", upMissions) >>
    /\ (\E i \in DOMAIN NewMessages : OfKind(NewMessages[i], "missionlist")) =>
         /\ Receives(edgeClusterQ)
         /\ Head(edgeClusterQ).type \in {Added, Modified}

RouterMessage(resourceType, operation, object) ==
    Message(<< resourceType, object.name >>, operation, object)

RouterEmits(e, resourceType) ==
    NewMessages =
      CASE e.type = Added -> << RouterMessage(resourceType, "insert", e.object) >>
        [] e.type = Deleted -> << RouterMessage(resourceType, "delete", e.object) >>
        [] e.type = Modified -> << >>

OfRouterKind(msg) ==
    Len(msg.resource) = 2 /\ msg.resource[1] \in {"rule", "ruleendpoint"}

C12_RouterStep ==
    /\ Extends
    /\ Receives(ruleQ) => RouterEmits(Head(ruleQ), "rule") /\ cache' = cache
    /\ Receives(ruleEndpointQ) =>
         RouterEmits(Head(ruleEndpointQ), "ruleendpoint") /\ cache' = cache
    /\ (\E i \in DOMAIN NewMessages : OfRouterKind(NewMessages[i])) =>
         Receives(ruleQ) \/ Receives(ruleEndpointQ)

C12_RouterOperations == [][C12_RouterStep]_vars

\* two events have been processed, a Deleted of a rule endpoint and a
\* Modified: the only message is the delete of the rule endpoint
C12_Witness ==
    /\ nEvents = 2 /\ ruleQ = << >> /\ ruleEndpointQ = << >>
    /\ Len(sent) = 1
    /\ sent[1].resource[1] = "ruleendpoint" /\ sent[1].operation = "delete"

(***************************************************************************)
(* C13.  No message is handed to the message layer whose resource          *)
(* identifier failed to build: in every loop a failed BuildResource or     *)
(* BuildResourceForRouter skips the message, the mission-list message of   *)
(* the edge-cluster loop included.                                         *)
(***************************************************************************)
Built(msg) == msg.resource # << >>

C13_NoUnbuiltResource == \A i \in DOMAIN sent : Built(sent[i])

(***************************************************************************)
(* C14.  An error of MessageLayer.Send is swallowed.  In a step in which a *)
(* Send fails, the failed message is handed over once and not again, the   *)
(* handler still hands over one message for every destination of the       *)
(* event, the cache changes of the event are made and kept, no loop        *)
(* terminates, and the loop is left at its wait for the next event (the    *)
(* mission loop at the next cluster of its walk).                          *)
(***************************************************************************)
NewlyFailed == sendFailed' \ sendFailed

HandedOnce(i) ==
    /\ i \in (Len(sent) + 1)..Len(sent')
    /\ Cardinality({j \in (Len(sent) + 1)..Len(sent') : sent'[j] = sent'[i]}) = 1

PodReferencesKept(pod) ==
    /\ \A c \in pod.configMaps :
         pod.nodeName \in IndexNodes(configMapNode', pod.namespace, c)
    /\ \A c \in pod.secrets :
         pod.nodeName \in IndexNodes(secretNode', pod.namespace, c)

C14_FailedSendStep ==
    NewlyFailed # {} =>
      /\ Extends
      /\ \A i \in NewlyFailed : HandedOnce(i)
      /\ lifecycle' = lifecycle
      /\ Finishes(podCur) =>
           /\ Len(NewMessages) = 1
           /\ podCur.type \in {Added, Modified} => PodReferencesKept(podCur.object)
      /\ Receives(configMapQ) =>
           /\ Len(NewMessages) =
                Cardinality(IndexNodes(configMapNode, Head(configMapQ).object.namespace,
                                       Head(configMapQ).object.name))
           /\ configMapCur' = NoEvent
           /\ cache' = cache
      /\ Finishes(configMapCur) =>
           /\ Len(NewMessages) = Len(configMapCur.nodes)
           /\ Key(configMapCur.object.namespace, configMapCur.object.name)
                \notin DOMAIN configMapNode'
      /\ Receives(secretQ) =>
           /\ Len(NewMessages) =
                Cardinality(IndexNodes(secretNode, Head(secretQ).object.namespace,
                                       Head(secretQ).object.name))
           /\ secretCur' = NoEvent
           /\ cache' = cache
      /\ Finishes(secretCur) =>
           /\ Len(NewMessages) = Len(secretCur.nodes)
           /\ Key(secretCur.object.namespace, secretCur.object.name)
                \notin DOMAIN secretNode'
      /\ Receives(nodeQ) =>
           /\ Len(NewMessages) = 1
           /\ Head(nodeQ).object.name \notin DOMAIN edgeNodes'
      /\ (missionCur # NoEvent /\ missionCur' # missionCur) =>
           /\ Len(NewMessages) = 1
           /\ \/ missionCur' = NoEvent /\ Cardinality(missionCur.pending) = 1
              \/ /\ missionCur' # NoEvent
                 /\ missionCur'.pending \subseteq missionCur.pending
                 /\ Cardinality(missionCur'.pending) =
                      Cardinality(missionCur.pending) - 1
      /\ (Receives(ruleQ) \/ Receives(ruleEndpointQ) \/ Receives(edgeClusterQ)) =>
           Len(NewMessages) = 1 /\ cache' = cache

C14_SendErrorSwallowed == [][C14_FailedSendStep]_vars

\* the Send of the first of the two configmap messages of an event failed;
\* the second was handed over, and so were the two of the next event
C14_Witness ==
    /\ sendFailed = {1}
    /\ Len(sent) = 4
    /\ \A i \in 1..4 : OfKind(sent[i], "configmap")
    /\ sent[1].resource[1] # sent[2].resource[1]

(***************************************************************************)
(* C15.  In each of the eight loops an event whose object fails the type   *)
(* assertion of the loop changes no LocationCache index and emits no       *)
(* message; the loop does not terminate and is back at its wait, where it  *)
(* takes the next event.                                                   *)
(***************************************************************************)
\* the loop of channel q takes an event whose object is not of its type
FailsAssertion(q, kind) == Receives(q) /\ Head(q).object.kind # kind

Skipped ==
    /\ cache' = cache
    /\ sent' = sent
    /\ lifecycle' = lifecycle
    /\ locals' = locals

C15_AssertionStep ==
    /\ FailsAssertion(podQ, "Pod") => Skipped /\ podCur' = NoEvent
    /\ FailsAssertion(configMapQ, "ConfigMap") => Skipped /\ configMapCur' = NoEvent
    /\ FailsAssertion(secretQ, "Secret") => Skipped /\ secretCur' = NoEvent
    /\ FailsAssertion(nodeQ, "Node") => Skipped
    /\ FailsAssertion(ruleQ, "Rule") => Skipped
    /\ FailsAssertion(ruleEndpointQ, "RuleEndpoint") => Skipped
    /\ FailsAssertion(missionQ, "Mission") => Skipped /\ missionCur' = NoEvent
    /\ FailsAssertion(edgeClusterQ, "EdgeCluster") => Skipped

C15_FailedAssertionSkipped == [][C15_AssertionStep]_vars

\* the pod p1 of the initial store was reported deleted with a tombstone,
\* for which nothing was sent, and then created again: the pod loop has
\* sent the insert of the new p1
C15_Witness ==
    /\ nEvents = 2 /\ podQ = << >> /\ podCur = NoEvent
    /\ Len(sent) = 1
    /\ OfKind(sent[1], "pod") /\ sent[1].operation = "insert"
    /\ sent[1].resource[4] = "p1" /\ sent[1].resource[2] = Namespace

(***************************************************************************)
(* C16.  As claimed: once the cancellation signal has fired, no loop takes *)
(* a further event from its channel.                                       *)
(***************************************************************************)
AllChannels == << queues, ruleQ, ruleEndpointQ >>

C16_OriginalStep == done => AllChannels' = AllChannels

C16_Original == [][C16_OriginalStep]_vars

(***************************************************************************)
(* C16, amended.  The signal fires once and stays.  A loop returns only    *)
(* after the signal has fired and only from its wait, never in the middle  *)
(* of a handler, one loop per step; at a wait where an event is pending as *)
(* well the loop may take the event instead and handle it to the end.  A   *)
(* loop that has returned takes no event and sends nothing, and            *)
(* eventually all eight loops have returned, also when events are still    *)
(* pending.                                                                *)
(***************************************************************************)
Returned(loop) == loop \in running /\ loop \notin running'

\* the loop that takes an event of the channel runs
TakenByRunning(q, loop) == Receives(q) => loop \in running

C16_CancelStep ==
    /\ done => done'
    /\ running' \subseteq running
    /\ running' # running =>
         /\ done
         /\ Cardinality(running \ running') = 1
         /\ \A loop \in Loops : Returned(loop) => AtSelect(loop)
         /\ AllChannels' = AllChannels /\ sent' = sent /\ cache' = cache
    /\ TakenByRunning(podQ, "pod")
    /\ TakenByRunning(configMapQ, "configmap")
    /\ TakenByRunning(secretQ, "secret")
    /\ TakenByRunning(nodeQ, "node")
    /\ TakenByRunning(ruleQ, "rule")
    /\ TakenByRunning(ruleEndpointQ, "ruleendpoint")
    /\ TakenByRunning(missionQ, "mission")
    /\ TakenByRunning(edgeClusterQ, "edgecluster")
    /\ podCur' # NoEvent => "pod" \in running'
    /\ missionCur' # NoEvent => "mission" \in running'

C16_Cancellation == [][C16_CancelStep]_vars /\ (done ~> (running = {}))

\* all loops have returned; the pod loop took its event after the signal
\* or before, the mission loop left its event on the channel
C16_Witness ==
    /\ done
    /\ running = {}
    /\ missionQ # << >>
    /\ \E i \in DOMAIN sent : OfKind(sent[i], "pod")

(***************************************************************************)
(* C17.  Every channel is a queue: an informer puts an event at its end    *)
(* and the loop takes the event at its head.  A loop holds one event at a  *)
(* time and takes the next only when the handler of the one before is      *)
(* over, and every message handed to the message layer is a message of the *)
(* event the loop of its kind has just taken or holds.  Hence each loop    *)
(* processes its events in the order they were enqueued, and the messages  *)
(* of a (destination, resource) pair are handed over in the order in which *)
(* the loop observed their events.                                         *)
(***************************************************************************)
Fifo(q) ==
    \/ q' = q
    \/ q # << >> /\ q' = Tail(q)
    \/ Len(q') = Len(q) + 1 /\ SubSeq(q', 1, Len(q)) = q

\* the loop takes an event only when it holds none, and holds the event it
\* took until its handler is over
OneAtATime(q, cur) ==
    /\ Receives(q) => cur = NoEvent /\ (cur' = NoEvent \/ cur'.object = Head(q).object)
    /\ (cur # NoEvent /\ cur' # NoEvent) =>
         cur'.type = cur.type /\ cur'.object = cur.object /\ ~ Receives(q)

\* the message is one of the event held, or of the event just taken
OfHeld(msg, q, cur) ==
    IF cur # NoEvent THEN msg.content = cur.object
    ELSE Receives(q) /\ msg.content = Head(q).object

OfTaken(msg, q) == Receives(q) /\ msg.resource[Len(msg.resource)] = Head(q).object.name

FromItsEvent(msg) ==
    CASE OfKind(msg, "pod") -> podCur # NoEvent /\ msg.content = podCur.object
      [] OfKind(msg, "configmap") -> OfHeld(msg, configMapQ, configMapCur)
      [] OfKind(msg, "secret") -> OfHeld(msg, secretQ, secretCur)
      [] OfKind(msg, "node") -> OfTaken(msg, nodeQ)
      [] OfKind(msg, "mission") ->
            missionCur # NoEvent /\ msg.content = missionCur.object
      [] OfKind(msg, "missionlist") ->
            Receives(edgeClusterQ) /\ msg.resource[1] = Head(edgeClusterQ).object.name
      [] Len(msg.resource) = 2 /\ msg.resource[1] = "rule" -> OfTaken(msg, ruleQ)
      [] Len(msg.resource) = 2 /\ msg.resource[1] = "ruleendpoint" ->
            OfTaken(msg, ruleEndpointQ)
      [] OTHER -> Receives(edgeClusterQ)

C17_OrderStep ==
    /\ Extends
    /\ Fifo(podQ) /\ Fifo(configMapQ) /\ Fifo(secretQ) /\ Fifo(nodeQ)
    /\ Fifo(ruleQ) /\ Fifo(ruleEndpointQ) /\ Fifo(missionQ) /\ Fifo(edgeClusterQ)
    /\ OneAtATime(podQ, podCur)
    /\ OneAtATime(configMapQ, configMapCur)
    /\ OneAtATime(secretQ, secretCur)
    /\ OneAtATime(missionQ, missionCur)
    /\ \A i \in DOMAIN NewMessages : FromItsEvent(NewMessages[i])

C17_EventOrder == [][C17_OrderStep]_vars

\* the update and then the delete of the configmap have been processed:
\* each of the two nodes was sent the update before the delete
C17_Witness ==
    /\ configMapQ = << >> /\ configMapCur = NoEvent
    /\ sendFailed = {}
    /\ Len(sent) = 4
    /\ \A i \in 1..4 : OfKind(sent[i], "configmap")
    /\ sent[1].operation = "update" /\ sent[2].operation = "update"
    /\ sent[3].operation = "delete" /\ sent[4].operation = "delete"

(***************************************************************************)
(* C18.  When NewDownstreamController returns a controller, initLocating   *)
(* has left in EdgeNodes exactly the labelled nodes of the list, each with *)
(* the status of its own Ready condition (no status for a node that has    *)
(* none); every listed pod on an edge node has its node in the entries of  *)
(* the configmaps and secrets it mounts; and every listed edge cluster is  *)
(* in EdgeClusters with the value true.                                    *)
(***************************************************************************)
Names(objs) == {o.name : o \in objs}

OwnReadyStatus(node) ==
    LET ready == {i \in DOMAIN node.conditions : node.conditions[i].type = "Ready"}
    IN  IF ready = {} THEN ""
        ELSE node.conditions[CHOOSE i \in ready : \A j \in ready : i <= j].status

Builds == controller = "unbuilt" /\ controller' = "built"

NodesPrimed ==
    /\ DOMAIN edgeNodes' = Names(upNodes)
    /\ \A n \in upNodes : edgeNodes'[n.name] = OwnReadyStatus(n)

PodsPrimed ==
    \A p \in upPods :
        p.nodeName \in Names(upNodes) =>
            /\ \A c \in p.configMaps :
                 p.nodeName \in IndexNodes(configMapNode', p.namespace, c)
            /\ \A c \in p.secrets :
                 p.nodeName \in IndexNodes(secretNode', p.namespace, c)

ClustersPrimed == edgeClusters' = [c \in Names(upClusters) |-> TRUE]

C18_InitStep == Builds => NodesPrimed /\ PodsPrimed /\ ClustersPrimed

C18_InitLocatingPrimes == [][C18_InitStep]_vars

(***************************************************************************)
(* C19.  initLocating is idempotent: run once more on the cache of the     *)
(* controller, against the store of nodes, pods and edge clusters the      *)
(* first run listed, it leaves every index of the LocationCache as it was. *)
(***************************************************************************)
StoreAsListed == nEvents = 0

C19_RerunStep == (InitLocatingAgain /\ StoreAsListed) => cache' = cache

C19_InitLocatingIdempotent == [][C19_RerunStep]_vars

\* a primed cache on which the second run may act: two edge nodes, the
\* second without a Ready condition, a pod on each, two edge clusters
C19_Witness ==
    /\ controller = "built" /\ nEvents = 0
    /\ DOMAIN edgeNodes = NodeNames
    /\ \E n \in upNodes : n.name = "n2" /\ n.conditions = << >>
    /\ IndexNodes(configMapNode, Namespace, "c1") = NodeNames
    /\ DOMAIN edgeClusters = ClusterNames
    /\ ENABLED InitLocatingAgain

(***************************************************************************)
(* C20, as claimed.  When a List call of initLocating or the construction  *)
(* of a manager fails, Start returns an error.                             *)
(***************************************************************************)
StartupFailed == controller # "unbuilt" /\ startupFault # "none"

C20_Original == StartupFailed => StartReturn = "error"

(***************************************************************************)
(* C20, amended.  When a List call of initLocating or the construction of  *)
(* a manager fails, NewDownstreamController returns the error and no       *)
(* controller; Start is not run and returns nothing, and the controller is *)
(* not launched: no loop runs, no event is taken from a channel, no        *)
(* message is sent, and this stays so.                                     *)
(***************************************************************************)
NotLaunched ==
    /\ controller = "failed"
    /\ StartReturn = "none"
    /\ running = {}
    /\ sent = << >>
    /\ locals = << NoEvent, NoEvent, NoEvent, NoEvent >>

C20_FailedStep ==
    StartupFailed =>
      /\ NotLaunched
      /\ NotLaunched'
      /\ cache' = cache
      /\ \A i \in 1..6 : Len(queues'[i]) >= Len(queues[i])
      /\ Len(ruleQ') >= Len(ruleQ) /\ Len(ruleEndpointQ') >= Len(ruleEndpointQ)

C20_StartupFailureFatal == [][C20_FailedStep]_vars

\* the List of the pods failed after the nodes were recorded; two events
\* wait on the channel of the pod loop, which does not run
C20_Witness ==
    /\ startupFault = "pods"
    /\ controller = "failed"
    /\ edgeNodes # EmptyMap
    /\ Len(podQ) = 2
    /\ running = {}

(***************************************************************************)
(* The EdgeClusters set after startup.                                     *)
(***************************************************************************)
\* the edge-cluster loop takes an event of one of the given types
EdgeClusterEvent(types) ==
    /\ Receives(edgeClusterQ)
    /\ Head(edgeClusterQ).object.kind = "EdgeCluster"
    /\ Head(edgeClusterQ).type \in types

\* the mission messages of the step
NewMissionMessages ==
    {msg \in Elements(NewMessages) : OfKind(msg, "mission")}

EdgeClustersStep ==
    /\ DOMAIN edgeClusters' \subseteq DOMAIN edgeClusters
    /\ EdgeClusterEvent({Added, Modified}) => edgeClusters' = edgeClusters
    /\ edgeClusters' # edgeClusters =>
          /\ EdgeClusterEvent({Deleted})
          /\ edgeClusters' =
                Remove(edgeClusters, Head(edgeClusterQ).object.name)
    /\ \A msg \in NewMissionMessages :
          msg.resource[1] \in DOMAIN edgeClusters

Takes(q, kind, types) ==
    /\ Receives(q)
    /\ Head(q).object.kind = kind
    /\ Head(q).type \in types

\* a loop that holds an event of one of the given types finishes it
Completes(cur, types) == Finishes(cur) /\ cur.type \in types

\* a pod event that passed the edge-node filter reaches the switch
PodChange ==
    /\ Completes(podCur, {Added, Modified})
    /\ UNCHANGED << edgeNodes, edgeClusters >>

ConfigMapChange ==
    /\ Completes(configMapCur, {Deleted})
    /\ UNCHANGED << edgeNodes, secretNode, podIndex, edgeClusters >>

SecretChange ==
    /\ Completes(secretCur, {Deleted})
    /\ UNCHANGED << edgeNodes, configMapNode, podIndex, edgeClusters >>

NodeChange ==
    /\ Takes(nodeQ, "Node", {Added, Modified, Deleted})
    /\ UNCHANGED << podIndex, edgeClusters >>

EdgeClusterChange ==
    /\ Takes(edgeClusterQ, "EdgeCluster", {Deleted})
    /\ UNCHANGED << edgeNodes, configMapNode, secretNode, podIndex >>

\* the steps of the events that change nothing in the cache
OtherEvent ==
    \/ Receives(podQ)
    \/ Completes(podCur, {Deleted})
    \/ Receives(configMapQ)
    \/ Receives(secretQ)
    \/ Receives(ruleQ)
    \/ Receives(ruleEndpointQ)
    \/ Receives(missionQ)
    \/ missionCur # NoEvent /\ missionCur' # missionCur
    \/ Takes(edgeClusterQ, "EdgeCluster", {Added, Modified})

CacheFrameStep ==
    /\ cache' # cache =>
          \/ PodChange
          \/ ConfigMapChange
          \/ SecretChange
          \/ NodeChange
          \/ EdgeClusterChange
    /\ OtherEvent => cache' = cache
    /\ Receives(podQ) /\ Head(podQ).object.kind = "Pod"
         /\ ~ IsEdgeNode(edgeNodes, Head(podQ).object.nodeName)
         => podCur' = NoEvent

\* C22: a step changes an index of the LocationCache only if it handles a
\* pod Added or Modified event that passed the edge-node filter, a configmap
\* Deleted event, a secret Deleted event, a node event or an edge-cluster
\* Deleted event, and then only the indices of that handler; the steps of
\* every other event (pod Deleted, a pod off the edge nodes, configmap and
\* secret Added or Modified, every rule, rule-endpoint and mission event,
\* edge-cluster Added or Modified) leave all five indices as they are.
C22_CacheFrame == [][CacheFrameStep]_vars

\* the configmap c1 was Deleted, which took its entry out of the index; then
\* a pod that mounts c1 was Deleted, and the entry has not come back
C22_Witness ==
    /\ Quiescent
    /\ nEvents = 2
    /\ Key(Namespace, "c1") \notin DOMAIN configMapNode
    /\ \E i, j \in DOMAIN sent :
          /\ i < j
          /\ OfKind(sent[i], "configmap") /\ sent[i].operation = DeleteOperation
          /\ OfKind(sent[j], "pod") /\ sent[j].operation = DeleteOperation
          /\ "c1" \in sent[j].content.configMaps

====
